---- MODULE Spec2Model ----
(***************************************************************************)
(* Model of the Textract result processor (src/lambda.py): the             *)
(* text/confidence resolver, the structural and the spatial table          *)
(* builders, the key/value extractor and the CSV / structured-record       *)
(* assemblers.                                                             *)
(*                                                                         *)
(* Conventions.                                                            *)
(*  - A Python dict field that may be missing is an option: <<>> when the  *)
(*    key is absent, <<v>> when it is present with value v.                *)
(*  - A text is a sequence of one-character strings, so that join and      *)
(*    strip are computed, not assumed.                                     *)
(*  - A confidence is an integer number of thousandths (95.0 is 95000);    *)
(*    round(x, 2) is computed on that scale.                               *)
(*  - A page coordinate is an integer number of thousandths of the page    *)
(*    (0.005 is 5); means and midpoints are exact fractions n/d, compared  *)
(*    by cross-multiplication (binary floating-point error is not          *)
(*    modelled).                                                           *)
(*  - WORD blocks carry Text and SELECTION_ELEMENT blocks carry            *)
(*    SelectionStatus, as Textract always supplies them.                   *)
(***************************************************************************)
EXTENDS Integers, Sequences, FiniteSets, TLC

VARIABLES
    blocks,      \* the block list; blocks_map indexes the same objects by Id
    resolved,    \* results of get_text_and_confidence_from_block calls
    spatialOut,  \* results of reconstruct_table_structure_spatially calls
    csvOut,      \* result of parse_tables_to_csv_data, <<>> before the call
    jsonOut,     \* result of parse_blocks_to_structured_json, <<>> before
    handler,     \* one lambda_handler invocation: its position, the event, the
                 \* webhook payload, the stored artifacts, the payloads sent
    fold         \* the loop over unique_x_positions of one reconstruction:
                 \* its position, the positions, the tolerance, the boundaries

vars == <<blocks, resolved, spatialOut, csvOut, jsonOut, handler, fold>>

(***************************************************************************)
(* Bounds of the explored inputs.                                          *)
(***************************************************************************)
MaxIds == 2
MaxCells == 2
MaxWords == 3
MaxRuns == 2
MaxTables == 3
MaxLines == 3
MaxEdges == 4

(***************************************************************************)
(* Generic helpers.                                                        *)
(***************************************************************************)
Range(s) == {s[i] : i \in 1..Len(s)}

SeqsUpTo(S, n) == UNION {[1..k -> S] : k \in 0..n}

RECURSIVE MinSeq(_)
MinSeq(s) ==
    IF Len(s) = 1 THEN s[1]
    ELSE LET m == MinSeq(Tail(s)) IN IF s[1] <= m THEN s[1] ELSE m

RECURSIVE MaxSeq(_)
MaxSeq(s) ==
    IF Len(s) = 1 THEN s[1]
    ELSE LET m == MaxSeq(Tail(s)) IN IF s[1] >= m THEN s[1] ELSE m

\* F applied to the value v: a local name for a value used more than once
With(v, F(_)) == F(v)

Max2(a, b) == IF a >= b THEN a ELSE b
Min2(a, b) == IF a <= b THEN a ELSE b

(***************************************************************************)
(* Python str operations on texts.                                         *)
(***************************************************************************)
IsSpace(c) == c = " "

RECURSIVE LStrip(_)
LStrip(s) == IF s # <<>> /\ IsSpace(Head(s)) THEN LStrip(Tail(s)) ELSE s

RECURSIVE RStrip(_)
RStrip(s) ==
    IF s # <<>> /\ IsSpace(s[Len(s)])
    THEN RStrip(SubSeq(s, 1, Len(s) - 1))
    ELSE s

\* str.strip()
Strip(s) == RStrip(LStrip(s))

\* ' '.join(parts)
RECURSIVE Join(_)
Join(parts) ==
    IF parts = <<>> THEN <<>>
    ELSE IF Len(parts) = 1 THEN parts[1]
    ELSE parts[1] \o <<" ">> \o Join(Tail(parts))

\* round(x, 2) of the fraction n/d of thousandths, d > 0, n >= 0: the nearest
\* hundredth, ties to the even one, again in thousandths.
Round2(n, d) ==
    LET q == n \div (10 * d)
        r == n % (10 * d)
    IN  IF 2 * r < 10 * d THEN 10 * q
        ELSE IF 2 * r > 10 * d THEN 10 * (q + 1)
        ELSE IF q % 2 = 0 THEN 10 * q ELSE 10 * (q + 1)

(***************************************************************************)
(* Blocks.                                                                 *)
(***************************************************************************)
Block(id, type) ==
    [Id |-> id, BlockType |-> type, Text |-> <<>>, Confidence |-> <<>>,
     Page |-> <<>>, Relationships |-> <<>>, EntityTypes |-> {},
     SelectionStatus |-> <<>>, RowIndex |-> <<>>, ColumnIndex |-> <<>>,
     RowSpan |-> <<>>, ColumnSpan |-> <<>>, Geometry |-> <<>>,
     parent_cell |-> <<>>]

Rel(type, ids) == [Type |-> type, Ids |-> ids]

\* blocks_map.get(id): the index in the block list of the block the dict
\* comprehension keeps for this Id (the last one), 0 for None.
blocks_map_get(bs, id) ==
    LET S == {i \in 1..Len(bs) : bs[i].Id = id}
    IN  IF S = {} THEN 0 ELSE CHOOSE i \in S : \A j \in S : j <= i

\* block.get('Confidence', 0)
ConfidenceOr0(b) == IF b.Confidence = <<>> THEN 0 ELSE b.Confidence[1]

(***************************************************************************)
(* get_text_and_confidence_from_block                                      *)
(***************************************************************************)
\* What one child appends to text_parts and confidences.
ChildContribution(child) ==
    IF child.BlockType = "WORD"
    THEN <<[text |-> child.Text[1], conf |-> ConfidenceOr0(child)]>>
    ELSE IF child.BlockType = "SELECTION_ELEMENT"
    THEN <<[text |-> IF child.SelectionStatus = <<"SELECTED">>
                     THEN <<"[", "X", "]">> ELSE <<"[", " ", "]">>,
            conf |-> ConfidenceOr0(child)]>>
    ELSE <<>>

RECURSIVE CollectChildIds(_, _, _)
CollectChildIds(bs, ids, acc) ==
    IF ids = <<>> THEN acc
    ELSE LET i == blocks_map_get(bs, Head(ids))
         IN  CollectChildIds(bs, Tail(ids),
                 IF i = 0 THEN acc ELSE acc \o ChildContribution(bs[i]))

RECURSIVE CollectChildRels(_, _, _)
CollectChildRels(bs, rels, acc) ==
    IF rels = <<>> THEN acc
    ELSE CollectChildRels(bs, Tail(rels),
             IF Head(rels).Type = "CHILD"
             THEN CollectChildIds(bs, Head(rels).Ids, acc)
             ELSE acc)

\* min(confidences) if confidences else 0.0, with max in its place
AggregateConfidence_max(confidences) ==
    IF confidences = <<>> THEN 0 ELSE MaxSeq(confidences)

\* min(confidences) if confidences else 0.0
AggregateConfidence(confidences) ==
    IF confidences = <<>> THEN 0 ELSE MinSeq(confidences)

get_text_and_confidence_from_block(block, bs) ==
    With(CollectChildRels(bs, block.Relationships, <<>>), LAMBDA contrib :
    With(Strip(Join([i \in 1..Len(contrib) |-> contrib[i].text])), LAMBDA full_text :
        IF full_text = <<>> /\ block.Text # <<>>
        THEN [text |-> Strip(block.Text[1]),
              confidence |-> AggregateConfidence(
                  Append([i \in 1..Len(contrib) |-> contrib[i].conf], ConfidenceOr0(block)))]
        ELSE [text |-> Strip(full_text),
              confidence |-> AggregateConfidence(
                  [i \in 1..Len(contrib) |-> contrib[i].conf])]))

(***************************************************************************)
(* Exact fractions n/d with d > 0, for the means and midpoints of          *)
(* reconstruct_table_structure_spatially.                                  *)
(***************************************************************************)
Frac(n, d) == [n |-> n, d |-> d]
FInt(k) == Frac(k, 1)
FLeq(a, b) == a.n * b.d <= b.n * a.d
FLt(a, b) == a.n * b.d < b.n * a.d
FMax(a, b) == IF FLeq(b, a) THEN a ELSE b
FMin(a, b) == IF FLeq(a, b) THEN a ELSE b
\* abs(a - b)
FAbsDiff(a, b) ==
    LET n == a.n * b.d - b.n * a.d
    IN  Frac(IF n < 0 THEN -n ELSE n, a.d * b.d)
\* (a + b) / 2, reduced while both terms are even
RECURSIVE FReduce(_)
FReduce(a) ==
    IF a.n % 2 = 0 /\ a.d % 2 = 0 THEN FReduce(Frac(a.n \div 2, a.d \div 2)) ELSE a
FMid(a, b) == FReduce(Frac(a.n * b.d + b.n * a.d, 2 * a.d * b.d))

(***************************************************************************)
(* Stable sorts (list.sort and sorted are stable).                         *)
(***************************************************************************)
\* insert x behind every element whose key is not greater
RECURSIVE InsertByField(_, _, _)
InsertByField(s, x, f) ==
    IF s = <<>> THEN <<x>>
    ELSE IF x[f] < Head(s)[f] THEN <<x>> \o s
    ELSE <<Head(s)>> \o InsertByField(Tail(s), x, f)

RECURSIVE SortByFieldFrom(_, _, _)
SortByFieldFrom(s, f, acc) ==
    IF s = <<>> THEN acc
    ELSE SortByFieldFrom(Tail(s), f, InsertByField(acc, Head(s), f))

\* s.sort(key=lambda w: w[f])
SortByField(s, f) == SortByFieldFrom(s, f, <<>>)

RECURSIVE InsertFrac(_, _)
InsertFrac(s, x) ==
    IF s = <<>> THEN <<x>>
    ELSE IF FLt(x, Head(s)) THEN <<x>> \o s
    ELSE <<Head(s)>> \o InsertFrac(Tail(s), x)

RECURSIVE SortFracsFrom(_, _)
SortFracsFrom(s, acc) ==
    IF s = <<>> THEN acc ELSE SortFracsFrom(Tail(s), InsertFrac(acc, Head(s)))

\* column_boundaries.sort()
SortFracs(s) == SortFracsFrom(s, <<>>)

\* sorted(set(xs)) of integers
RECURSIVE SortedSet(_)
SortedSet(S) ==
    IF S = {} THEN <<>>
    ELSE LET m == CHOOSE x \in S : \A y \in S : x <= y
         IN  <<m>> \o SortedSet(S \ {m})

RECURSIVE SumField(_, _)
SumField(s, f) == IF s = <<>> THEN 0 ELSE Head(s)[f] + SumField(Tail(s), f)

RECURSIVE Concat(_)
Concat(ss) == IF ss = <<>> THEN <<>> ELSE Head(ss) \o Concat(Tail(ss))

(***************************************************************************)
(* reconstruct_table_structure_spatially: collecting the words.            *)
(***************************************************************************)
RECURSIVE WordsFromRels(_, _)
RECURSIVE WordsFromIds(_, _)

\* the loop over the CHILD relationships of a CELL or LINE block
WordsFromRels(bs, rels) ==
    IF rels = <<>> THEN <<>>
    ELSE (IF Head(rels).Type = "CHILD" THEN WordsFromIds(bs, Head(rels).Ids) ELSE <<>>)
         \o WordsFromRels(bs, Tail(rels))

\* the loop over the child identifiers: a WORD is appended, a LINE is descended
WordsFromIds(bs, ids) ==
    IF ids = <<>> THEN <<>>
    ELSE LET i == blocks_map_get(bs, Head(ids))
         IN  (IF i = 0 THEN <<>>
              ELSE IF bs[i].BlockType = "WORD" THEN <<i>>
              ELSE IF bs[i].BlockType = "LINE" THEN WordsFromRels(bs, bs[i].Relationships)
              ELSE <<>>)
             \o WordsFromIds(bs, Tail(ids))

\* extract_words_from_cell that leaves out the words already annotated
extract_words_from_cell_fresh(bs, cell) ==
    SelectSeq(WordsFromRels(bs, cell.Relationships), LAMBDA w : bs[w].parent_cell = <<>>)

\* extract_words_from_cell: the words (indices into the block list) below a cell
extract_words_from_cell(bs, cell) == WordsFromRels(bs, cell.Relationships)

\* an annotation that marks the cell block as well as its words
RECURSIVE AnnotateWords_cell(_, _, _)
AnnotateWords_cell(bs, words, c) ==
    IF words = <<>> THEN bs
    ELSE AnnotateWords_cell([bs EXCEPT ![Head(words)].parent_cell = <<c>>,
                                       ![c].parent_cell = <<c>>], Tail(words), c)

\* for word in cell_words: word['parent_cell'] = cell_block
RECURSIVE AnnotateWords(_, _, _)
AnnotateWords(bs, words, c) ==
    IF words = <<>> THEN bs
    ELSE AnnotateWords([bs EXCEPT ![Head(words)].parent_cell = <<c>>], Tail(words), c)

\* the loops over the table's relationships and their identifiers; st holds
\* the block list as annotated so far, table_cells and word_blocks
RECURSIVE CollectCellIds(_, _)
CollectCellIds(st, ids) ==
    IF ids = <<>> THEN st
    ELSE LET c == blocks_map_get(st.bs, Head(ids))
         IN  IF c # 0 /\ st.bs[c].BlockType = "CELL"
             THEN LET cell_words == extract_words_from_cell(st.bs, st.bs[c])
                  IN  CollectCellIds(
                          [bs |-> AnnotateWords(st.bs, cell_words, c),
                           table_cells |-> Append(st.table_cells, c),
                           word_blocks |-> st.word_blocks \o cell_words],
                          Tail(ids))
             ELSE CollectCellIds(st, Tail(ids))

RECURSIVE CollectCellRels(_, _)
CollectCellRels(st, rels) ==
    IF rels = <<>> THEN st
    ELSE CollectCellRels(
             IF Head(rels).Type = "CHILD" THEN CollectCellIds(st, Head(rels).Ids) ELSE st,
             Tail(rels))

\* the state after the collection: annotated blocks, table_cells, word_blocks
CollectTableWords(bs, t) ==
    CollectCellRels([bs |-> bs, table_cells |-> <<>>, word_blocks |-> <<>>],
                    bs[t].Relationships)

(***************************************************************************)
(* reconstruct_table_structure_spatially: the spatial words.               *)
(***************************************************************************)
\* 'Geometry' in word_block and 'BoundingBox' in word_block['Geometry']
HasBoundingBox(w) == w.Geometry # <<>> /\ w.Geometry[1].BoundingBox # <<>>

\* all(isinstance(bbox.get(key), (int, float)) for key in [...])
ValidBoundingBox(bbox) ==
    \A key \in {"Left", "Top", "Width", "Height"} : bbox[key] # <<>>

SpatialWord(w) ==
    LET bbox == w.Geometry[1].BoundingBox[1]
        left == bbox.Left[1]
        top == bbox.Top[1]
        width == bbox.Width[1]
        height == bbox.Height[1]
    IN  [id |-> w.Id,
         text |-> IF w.Text = <<>> THEN <<>> ELSE w.Text[1],
         confidence |-> ConfidenceOr0(w),
         left |-> left, top |-> top, width |-> width, height |-> height,
         right |-> left + width, bottom |-> top + height,
         center_x |-> Frac(2 * left + width, 2),
         center_y |-> Frac(2 * top + height, 2),
         parent_cell |-> w.parent_cell]

RECURSIVE SpatialWords(_, _)
SpatialWords(bs, word_blocks) ==
    IF word_blocks = <<>> THEN <<>>
    ELSE LET w == bs[Head(word_blocks)]
         IN  (IF HasBoundingBox(w) /\ ValidBoundingBox(w.Geometry[1].BoundingBox[1])
              THEN <<SpatialWord(w)>> ELSE <<>>)
             \o SpatialWords(bs, Tail(word_blocks))

(***************************************************************************)
(* reconstruct_table_structure_spatially: rows.                            *)
(***************************************************************************)
\* the clamps of the two tolerances, in thousandths of the page
RowToleranceMin == 5
RowToleranceMax == 20
BoundaryToleranceMin == 10
BoundaryToleranceMax == 30

\* max(0.005, min(0.02, avg_word_height * 0.5))
row_tolerance(spatial_words) ==
    FMax(FInt(RowToleranceMin),
         FMin(FInt(RowToleranceMax),
              Frac(SumField(spatial_words, "height"), 2 * Len(spatial_words))))

\* sum(w['center_y'] for w in current_row) / len(current_row); every center_y
\* is a number of halves
current_row_avg_y(current_row) ==
    Frac(SumField([i \in 1..Len(current_row) |-> current_row[i].center_y], "n"),
         2 * Len(current_row))

\* the test with the first word of the open row in place of its mean
JoinsCurrentRow_first(word, current_row, tol) ==
    FLeq(FAbsDiff(word.center_y, current_row[1].center_y), tol)

\* abs(word['center_y'] - current_row_avg_y) <= row_tolerance
JoinsCurrentRow(word, current_row, tol) ==
    FLeq(FAbsDiff(word.center_y, current_row_avg_y(current_row)), tol)

RECURSIVE ClusterRows(_, _, _, _)
ClusterRows(words, rows, current_row, tol) ==
    IF words = <<>>
    THEN IF current_row # <<>> THEN Append(rows, current_row) ELSE rows
    ELSE LET word == Head(words)
         IN  IF current_row = <<>>
             THEN ClusterRows(Tail(words), rows, <<word>>, tol)
             ELSE IF JoinsCurrentRow(word, current_row, tol)
             THEN ClusterRows(Tail(words), rows, Append(current_row, word), tol)
             ELSE ClusterRows(Tail(words), Append(rows, current_row), <<word>>, tol)

(***************************************************************************)
(* reconstruct_table_structure_spatially: columns.                         *)
(***************************************************************************)
\* every word's left and right edge
AllXPositions(rows) ==
    UNION {UNION {{rows[r][i].left, rows[r][i].right} : i \in 1..Len(rows[r])} :
              r \in 1..Len(rows)}

\* max(0.01, min(0.03, doc_width * 0.02))
boundary_tolerance(doc_width) ==
    FMax(FInt(BoundaryToleranceMin),
         FMin(FInt(BoundaryToleranceMax), Frac(doc_width, 50)))

\* one step of the fold that appends every position, merging none
FoldBoundary_append(column_boundaries, x_pos, tol) ==
    Append(column_boundaries, FInt(x_pos))

\* one step of the fold: the first boundary within the tolerance is replaced
\* by its mean with x_pos, otherwise x_pos is appended
FoldBoundary(column_boundaries, x_pos, tol) ==
    LET near == {i \in 1..Len(column_boundaries) :
                    FLeq(FAbsDiff(FInt(x_pos), column_boundaries[i]), tol)}
    IN  IF near = {} THEN Append(column_boundaries, FInt(x_pos))
        ELSE LET i == CHOOSE k \in near : \A j \in near : k <= j
             IN  [column_boundaries EXCEPT ![i] = FMid(column_boundaries[i], FInt(x_pos))]

RECURSIVE FoldBoundaries(_, _, _)
FoldBoundaries(xs, column_boundaries, tol) ==
    IF xs = <<>> THEN column_boundaries
    ELSE FoldBoundaries(Tail(xs), FoldBoundary(column_boundaries, Head(xs), tol), tol)

ColumnRanges(column_boundaries) ==
    [i \in 1..(Len(column_boundaries) - 1) |->
        [start |-> column_boundaries[i],
         end |-> column_boundaries[i + 1],
         center |-> FMid(column_boundaries[i], column_boundaries[i + 1])]]

\* the second loop of get_column_index: the first range at the least distance
RECURSIVE ClosestColumn(_, _, _, _)
ClosestColumn(word_center, column_ranges, i, best) ==
    IF i > Len(column_ranges) THEN best.closest_col
    ELSE LET distance == FMin(FAbsDiff(word_center, column_ranges[i].start),
                              FAbsDiff(word_center, column_ranges[i].end))
         IN  ClosestColumn(word_center, column_ranges, i + 1,
                 IF best.min_distance = <<>> \/ FLt(distance, best.min_distance[1])
                 THEN [closest_col |-> i - 1, min_distance |-> <<distance>>]
                 ELSE best)

\* get_column_index without the search for the closest column: a word whose
\* center lies in no range gets the index after the last column
get_column_index_inside(word, column_ranges) ==
    LET inside == {i \in 1..Len(column_ranges) :
                      /\ FLeq(column_ranges[i].start, word.center_x)
                      /\ FLeq(word.center_x, column_ranges[i].end)}
    IN  IF inside # {} THEN (CHOOSE i \in inside : \A j \in inside : i <= j) - 1
        ELSE Len(column_ranges)

\* get_column_index: a 0-based column
get_column_index(word, column_ranges) ==
    LET inside == {i \in 1..Len(column_ranges) :
                      /\ FLeq(column_ranges[i].start, word.center_x)
                      /\ FLeq(word.center_x, column_ranges[i].end)}
    IN  IF inside # {} THEN (CHOOSE i \in inside : \A j \in inside : i <= j) - 1
        ELSE ClosestColumn(word.center_x, column_ranges, 1,
                           [closest_col |-> 0, min_distance |-> <<>>])

(***************************************************************************)
(* reconstruct_table_structure_spatially: the grid.                        *)
(***************************************************************************)
\* a row entry that ends at the last column the row has a word in
SpatialRow_ragged(row_idx, row_words, column_ranges) ==
    [row_index |-> row_idx,
     cells |->
        [c \in 1..MaxSeq([i \in 1..Len(row_words) |->
                             get_column_index(row_words[i], column_ranges) + 1]) |->
            [column_index |-> c, text |-> <<>>, confidence |-> 0]]]

\* one entry of reconstructed_table['rows']
SpatialRow(row_idx, row_words, column_ranges) ==
    [row_index |-> row_idx,
     cells |->
        [c \in 1..Len(column_ranges) |->
            With(SortByField(
                    SelectSeq(row_words,
                              LAMBDA w : get_column_index(w, column_ranges) = c - 1),
                    "left"), LAMBDA words :
                IF words = <<>>
                THEN [column_index |-> c, text |-> <<>>, confidence |-> 0]
                ELSE [column_index |-> c,
                      text |-> Strip(Join([i \in 1..Len(words) |-> words[i].text])),
                      confidence |-> Round2(SumField(words, "confidence"), Len(words))])]]

\* len(column_boundaries) < 1
TooFewBoundaries_one(column_boundaries) == Len(column_boundaries) < 1

\* len(column_boundaries) < 2
TooFewBoundaries(column_boundaries) == Len(column_boundaries) < 2

\* what a call hands back when it returns None before the rows are formed
NoWords(st, spatial_words) ==
    [bs |-> st.bs, word_blocks |-> st.word_blocks, spatial_words |-> spatial_words,
     clustered |-> <<>>, rows |-> <<>>, column_boundaries |-> <<>>, result |-> <<>>]

\* reconstructed_table
ReconstructedTable(table_block, spatial_words, tol, btol, rows, column_ranges) ==
    [table_id |-> table_block.Id,
     page_number |-> table_block.Page,
     word_count |-> Len(spatial_words),
     row_tolerance |-> tol,
     boundary_tolerance |-> btol,
     row_count |-> Len(rows),
     column_count |-> Len(column_ranges),
     rows |-> [r \in 1..Len(rows) |-> SpatialRow(r, rows[r], column_ranges)]]

\* everything one call computes: the block list it leaves (bs), the lists it
\* forms on its way (empty when the call returns before forming them), and the
\* value it returns (result, <<>> for None)
Reconstruction(bs, t) ==
    With(CollectTableWords(bs, t), LAMBDA st :
    With(SortByField(SpatialWords(st.bs, st.word_blocks), "top"), LAMBDA spatial_words :
        IF st.word_blocks = <<>> \/ spatial_words = <<>>
        THEN NoWords(st, spatial_words)
        ELSE
    With(row_tolerance(spatial_words), LAMBDA tol :
    With(ClusterRows(spatial_words, <<>>, <<>>, tol), LAMBDA clustered :
    With([r \in 1..Len(clustered) |-> SortByField(clustered[r], "left")], LAMBDA rows :
    With(SortedSet(AllXPositions(rows)), LAMBDA unique_x_positions :
    With(boundary_tolerance(unique_x_positions[Len(unique_x_positions)]
                            - unique_x_positions[1]), LAMBDA btol :
    With(SortFracs(FoldBoundaries(unique_x_positions, <<>>, btol)), LAMBDA column_boundaries :
        [bs |-> st.bs,
         word_blocks |-> st.word_blocks,
         spatial_words |-> spatial_words,
         clustered |-> clustered,
         rows |-> rows,
         column_boundaries |-> column_boundaries,
         result |->
            IF Len(rows) < 1 \/ TooFewBoundaries(column_boundaries)
            THEN <<>>
            ELSE <<ReconstructedTable(bs[t], spatial_words, tol, btol, rows,
                                      ColumnRanges(column_boundaries))>>]))))))))

\* the value reconstruct_table_structure_spatially returns
reconstruct_table_structure_spatially(bs, t) == Reconstruction(bs, t).result

(***************************************************************************)
(* The structural table builder of parse_tables_to_csv_data.               *)
(***************************************************************************)
\* the CELL children of one MERGED_CELL block
RECURSIVE MergedCellIds(_, _)
MergedCellIds(bs, ids) ==
    IF ids = <<>> THEN <<>>
    ELSE LET m == blocks_map_get(bs, Head(ids))
         IN  (IF m # 0 /\ bs[m].BlockType = "CELL" THEN <<m>> ELSE <<>>)
             \o MergedCellIds(bs, Tail(ids))

RECURSIVE MergedCellRels(_, _)
MergedCellRels(bs, rels) ==
    IF rels = <<>> THEN <<>>
    ELSE (IF Head(rels).Type = "CHILD" THEN MergedCellIds(bs, Head(rels).Ids) ELSE <<>>)
         \o MergedCellRels(bs, Tail(rels))

RECURSIVE TableCellIds(_, _)
TableCellIds(bs, ids) ==
    IF ids = <<>> THEN <<>>
    ELSE LET g == blocks_map_get(bs, Head(ids))
         IN  (IF g = 0 THEN <<>>
              ELSE IF bs[g].BlockType = "CELL" THEN <<g>>
              ELSE IF bs[g].BlockType = "MERGED_CELL"
              THEN MergedCellRels(bs, bs[g].Relationships)
              ELSE <<>>)
             \o TableCellIds(bs, Tail(ids))

RECURSIVE TableCellRels(_, _)
TableCellRels(bs, rels) ==
    IF rels = <<>> THEN <<>>
    ELSE (IF Head(rels).Type = "CHILD" THEN TableCellIds(bs, Head(rels).Ids) ELSE <<>>)
         \o TableCellRels(bs, Tail(rels))

\* cell_blocks_in_table: the CELL blocks of a table (indices into the block
\* list), MERGED_CELL children unwrapped one level
cell_blocks_in_table(bs, t) == TableCellRels(bs, bs[t].Relationships)

\* cell_block.get('RowSpan', 1), cell_block.get('ColumnSpan', 1)
RowSpanOr1(cell) == IF cell.RowSpan = <<>> THEN 1 ELSE cell.RowSpan[1]
ColumnSpanOr1(cell) == IF cell.ColumnSpan = <<>> THEN 1 ELSE cell.ColumnSpan[1]

\* the grid positions the two offset loops visit for a cell
CoveredPositions(cell) ==
    {<<cell.RowIndex[1] + r_offset, cell.ColumnIndex[1] + c_offset>> :
        r_offset \in 0..(RowSpanOr1(cell) - 1),
        c_offset \in 0..(ColumnSpanOr1(cell) - 1)}

\* the two offset loops writing the cell's text at every position they visit
WriteCell_everywhere(table_cells_map, cell, cell_text) ==
    [p \in DOMAIN table_cells_map \cup CoveredPositions(cell) |->
        IF p \in CoveredPositions(cell) THEN cell_text ELSE table_cells_map[p]]

\* the two offset loops for one cell: the text at the top-left position, and
\* table_cells_map.get(position, "") at the others
WriteCell(table_cells_map, cell, cell_text) ==
    [p \in DOMAIN table_cells_map \cup CoveredPositions(cell) |->
        IF p \in CoveredPositions(cell) /\ p = <<cell.RowIndex[1], cell.ColumnIndex[1]>>
        THEN cell_text
        ELSE IF p \in DOMAIN table_cells_map THEN table_cells_map[p]
        ELSE <<>>]

EmptyMap == [p \in {} |-> <<>>]

\* the loop over cell_blocks_in_table; a cell without RowIndex or ColumnIndex
\* raises KeyError
RECURSIVE FillCells(_, _, _)
FillCells(bs, cells, st) ==
    IF cells = <<>> \/ st.raised THEN st
    ELSE IF bs[Head(cells)].RowIndex = <<>> \/ bs[Head(cells)].ColumnIndex = <<>>
    THEN [st EXCEPT !.raised = TRUE]
    ELSE With(bs[Head(cells)], LAMBDA cell :
            FillCells(bs, Tail(cells),
               [table_cells_map |->
                   WriteCell(st.table_cells_map, cell,
                             get_text_and_confidence_from_block(cell, bs).text),
                max_row |-> Max2(st.max_row, cell.RowIndex[1] + RowSpanOr1(cell) - 1),
                max_col |-> Max2(st.max_col, cell.ColumnIndex[1] + ColumnSpanOr1(cell) - 1),
                raised |-> FALSE]))

\* table_cells_map, max_row and max_col after the loop over the cells
StructuralFill(bs, cells) ==
    FillCells(bs, cells,
              [table_cells_map |-> EmptyMap, max_row |-> 0, max_col |-> 0, raised |-> FALSE])

\* current_table_rows with the columns counted from 0
current_table_rows_from0(fill) ==
    [r \in 1..fill.max_row |->
        [c \in 1..fill.max_col |->
            IF <<r, c - 1>> \in DOMAIN fill.table_cells_map
            THEN fill.table_cells_map[<<r, c - 1>>] ELSE <<>>]]

\* current_table_rows
current_table_rows(fill) ==
    [r \in 1..fill.max_row |->
        [c \in 1..fill.max_col |->
            IF <<r, c>> \in DOMAIN fill.table_cells_map
            THEN fill.table_cells_map[<<r, c>>] ELSE <<>>]]

(***************************************************************************)
(* parse_tables_to_csv_data                                                *)
(***************************************************************************)
\* the indices of the blocks of one type, in list order
BlocksOfType(bs, type) == SelectSeq([i \in 1..Len(bs) |-> i], LAMBDA i : bs[i].BlockType = type)

\* table.get('Page', 'Unknown') as it is formatted into the label
PageLabel(table) == IF table.Page = <<>> THEN "Unknown" ELSE ToString(table.Page[1])

\* [f"--- Table {table_num + 1} (Page {page_number}) ---"], table_num 0-based
LabelRow(table_num, table) ==
    << <<"--- Table ", ToString(table_num + 1), " (Page ", PageLabel(table), ") ---">> >>

HeaderRow == << <<"Detected Lines (No Table Structure Found)">> >>

\* the body of the loop over the tables for one table; st holds the block
\* list as annotated so far, all_csv_rows, what was printed about each table
\* and whether an exception has left the function
CsvTableSpatial(st, t, labelled, rec) ==
    [bs |-> rec.bs,
     all_csv_rows |-> labelled \o
         [r \in 1..Len(rec.result[1].rows) |->
             [c \in 1..Len(rec.result[1].rows[r].cells) |->
                 rec.result[1].rows[r].cells[c].text]],
     log |-> Append(st.log, [table |-> t, path |-> "spatial",
                             first |-> Len(labelled) + 1,
                             count |-> Len(rec.result[1].rows)]),
     raised |-> FALSE]

\* the structural fallback of the loop body
CsvTableStructural(st, t, labelled, bs, fill) ==
    IF fill.raised
    THEN [bs |-> bs, all_csv_rows |-> labelled, log |-> st.log, raised |-> TRUE]
    ELSE IF DOMAIN fill.table_cells_map = {}
    THEN [bs |-> bs, all_csv_rows |-> labelled,
          log |-> Append(st.log, [table |-> t, path |-> "skipped",
                                  first |-> Len(labelled) + 1, count |-> 0]),
          raised |-> FALSE]
    ELSE [bs |-> bs,
          all_csv_rows |-> labelled \o current_table_rows(fill),
          log |-> Append(st.log, [table |-> t, path |-> "structural",
                                  first |-> Len(labelled) + 1,
                                  count |-> fill.max_row]),
          raised |-> FALSE]

\* all_csv_rows after the separator and the label of a table that is not the
\* first to contribute
Labelled(st, t, table_num) ==
    IF st.all_csv_rows # <<>>
    THEN st.all_csv_rows \o << <<>> >> \o <<LabelRow(table_num, st.bs[t])>>
    ELSE st.all_csv_rows

CsvTable(st, t, table_num) ==
    With(Labelled(st, t, table_num), LAMBDA labelled :
    With(Reconstruction(st.bs, t), LAMBDA rec :
        IF rec.result # <<>>
        THEN CsvTableSpatial(st, t, labelled, rec)
        ELSE With(StructuralFill(rec.bs, cell_blocks_in_table(rec.bs, t)), LAMBDA fill :
                CsvTableStructural(st, t, labelled, rec.bs, fill))))

RECURSIVE CsvTables(_, _, _)
CsvTables(st, tables, table_num) ==
    IF table_num >= Len(tables) \/ st.raised THEN st
    ELSE CsvTables(CsvTable(st, tables[table_num + 1], table_num), tables, table_num + 1)

\* the fallback without its header row
LineRows_noheader(bs, lines) ==
    [i \in 1..Len(lines) |-> <<get_text_and_confidence_from_block(bs[lines[i]], bs).text>>]

\* the rows of the fallback for a document without tables
LineRows(bs, lines) ==
    IF lines = <<>> THEN <<>>
    ELSE HeaderRow \o
         [i \in 1..Len(lines) |-> <<get_text_and_confidence_from_block(bs[lines[i]], bs).text>>]

\* one call: the block list it leaves (bs), the rows it returns
\* (all_csv_rows) unless an exception left it (raised), and what it printed
\* about each table (log: the table, the path taken, where its body rows
\* start in all_csv_rows and how many they are)
parse_tables_to_csv_data(bs) ==
    With(BlocksOfType(bs, "TABLE"), LAMBDA tables :
        IF tables = <<>>
        THEN [bs |-> bs, all_csv_rows |-> LineRows(bs, BlocksOfType(bs, "LINE")),
              log |-> <<>>, raised |-> FALSE]
        ELSE CsvTables([bs |-> bs, all_csv_rows |-> <<>>, log |-> <<>>, raised |-> FALSE],
                       tables, 0))

(***************************************************************************)
(* parse_blocks_to_structured_json: the tables.                            *)
(* The optional AI restructuring (smart_table_restructure) is an external  *)
(* service; the model is of a deployment without OPENAI_API_KEY, where the *)
(* step is skipped.                                                        *)
(***************************************************************************)
\* the table record of a spatially reconstructed table
SpatialTableData(table_block, spatial_table) ==
    [tableId |-> table_block.Id,
     pageNumber |-> table_block.Page,
     confidence |-> table_block.Confidence,
     rowCount |-> spatial_table.row_count,
     columnCount |-> spatial_table.column_count,
     spatiallyReconstructed |-> TRUE,
     rows |->
        [r \in 1..Len(spatial_table.rows) |->
            LET spatial_row == spatial_table.rows[r]
            IN  [rowIndex |-> spatial_row.row_index,
                 cells |->
                    [c \in 1..Len(spatial_row.cells) |->
                        LET cell == spatial_row.cells[c]
                        IN  [cellId |-> <<"spatial", table_block.Id,
                                          ToString(spatial_row.row_index),
                                          ToString(cell.column_index)>>,
                             rowIndex |-> spatial_row.row_index,
                             columnIndex |-> cell.column_index,
                             rowSpan |-> 1,
                             columnSpan |-> 1,
                             text |-> cell.text,
                             confidence |-> cell.confidence,
                             geometry |-> <<>>,
                             spatiallyReconstructed |-> TRUE]]]]]

\* cells_in_current_table: lines 261-276 repeat lines 131-146
cells_in_current_table(bs, t) == cell_blocks_in_table(bs, t)

\* cell_info that takes every cell to span one row and one column
CellInfo_span1(bs, cell_block) ==
    With(get_text_and_confidence_from_block(cell_block, bs), LAMBDA tc :
        [cellId |-> <<cell_block.Id>>,
         rowIndex |-> cell_block.RowIndex[1],
         columnIndex |-> cell_block.ColumnIndex[1],
         rowSpan |-> 1,
         columnSpan |-> 1,
         text |-> tc.text,
         confidence |-> Round2(tc.confidence, 1),
         geometry |-> cell_block.Geometry,
         spatiallyReconstructed |-> FALSE])

\* cell_info of one cell block
CellInfo(bs, cell_block) ==
    With(get_text_and_confidence_from_block(cell_block, bs), LAMBDA tc :
        [cellId |-> <<cell_block.Id>>,
         rowIndex |-> cell_block.RowIndex[1],
         columnIndex |-> cell_block.ColumnIndex[1],
         rowSpan |-> RowSpanOr1(cell_block),
         columnSpan |-> ColumnSpanOr1(cell_block),
         text |-> tc.text,
         confidence |-> Round2(tc.confidence, 1),
         geometry |-> cell_block.Geometry,
         spatiallyReconstructed |-> FALSE])

\* the loop over cells_in_current_table; a cell without RowIndex or
\* ColumnIndex raises KeyError
RECURSIVE ParseCells(_, _, _)
ParseCells(bs, cells, st) ==
    IF cells = <<>> \/ st.raised THEN st
    ELSE IF bs[Head(cells)].RowIndex = <<>> \/ bs[Head(cells)].ColumnIndex = <<>>
    THEN [st EXCEPT !.raised = TRUE]
    ELSE With(CellInfo(bs, bs[Head(cells)]), LAMBDA cell_info :
            ParseCells(bs, Tail(cells),
               [parsed_cells_map |->
                   [p \in DOMAIN st.parsed_cells_map
                          \cup {<<cell_info.rowIndex, cell_info.columnIndex>>} |->
                       IF p = <<cell_info.rowIndex, cell_info.columnIndex>>
                       THEN cell_info ELSE st.parsed_cells_map[p]],
                max_r |-> Max2(st.max_r, cell_info.rowIndex + cell_info.rowSpan - 1),
                max_c |-> Max2(st.max_c, cell_info.columnIndex + cell_info.columnSpan - 1),
                raised |-> FALSE]))

\* table_data["rows"]: one row per row index that is some cell's RowIndex,
\* holding the cells declared there in column order
StructuralRows(parsed) ==
    LET keys == DOMAIN parsed.parsed_cells_map
        row_indices == SortedSet({k[1] : k \in keys})
    IN  [i \in 1..Len(row_indices) |->
            LET r_idx == row_indices[i]
                cols == SortedSet({k[2] : k \in {q \in keys : q[1] = r_idx}})
            IN  [rowIndex |-> r_idx,
                 cells |-> [j \in 1..Len(cols) |->
                               parsed.parsed_cells_map[<<r_idx, cols[j]>>]]]]

\* the body of the loop over table_blocks for one table; st holds the block
\* list as annotated so far, output_json["tables"] and whether an exception
\* has left the function
JsonTableStructural(st, t, bs, parsed) ==
    IF parsed.raised
    THEN [st EXCEPT !.bs = bs, !.raised = TRUE]
    ELSE IF parsed.none
    THEN [st EXCEPT !.bs = bs]
    ELSE [bs |-> bs,
          tables |-> Append(st.tables,
              [tableId |-> bs[t].Id,
               pageNumber |-> bs[t].Page,
               confidence |-> bs[t].Confidence,
               rowCount |-> parsed.max_r,
               columnCount |-> parsed.max_c,
               spatiallyReconstructed |-> FALSE,
               rows |-> StructuralRows(parsed)]),
          from |-> Append(st.from, t),
          raised |-> FALSE]

\* the loop over cells_in_current_table from its empty start; none tells
\* that the table lists no CELL block and is skipped
StructuralParse(bs, cells) ==
    [none |-> cells = <<>>] @@
    ParseCells(bs, cells,
               [parsed_cells_map |-> EmptyMap, max_r |-> 0, max_c |-> 0, raised |-> FALSE])

\* the loop body with the two attempts in the other order: the structural
\* builder first, the spatial reconstruction when the table lists no cell
JsonTable_structuralFirst(st, t) ==
    With(StructuralParse(st.bs, cells_in_current_table(st.bs, t)), LAMBDA parsed :
        IF ~parsed.none
        THEN JsonTableStructural(st, t, st.bs, parsed)
        ELSE With(Reconstruction(st.bs, t), LAMBDA rec :
                IF rec.result # <<>>
                THEN [bs |-> rec.bs,
                      tables |-> Append(st.tables,
                                        SpatialTableData(rec.bs[t], rec.result[1])),
                      from |-> Append(st.from, t),
                      raised |-> FALSE]
                ELSE [st EXCEPT !.bs = rec.bs]))

JsonTable(st, t) ==
    With(Reconstruction(st.bs, t), LAMBDA rec :
        IF rec.result # <<>>
        THEN [bs |-> rec.bs,
              tables |-> Append(st.tables, SpatialTableData(rec.bs[t], rec.result[1])),
              from |-> Append(st.from, t),
              raised |-> FALSE]
        ELSE With(StructuralParse(rec.bs, cells_in_current_table(rec.bs, t)), LAMBDA parsed :
                JsonTableStructural(st, t, rec.bs, parsed)))

RECURSIVE JsonTables(_, _)
JsonTables(st, table_blocks) ==
    IF table_blocks = <<>> \/ st.raised THEN st
    ELSE JsonTables(JsonTable(st, Head(table_blocks)), Tail(table_blocks))

(***************************************************************************)
(* parse_blocks_to_structured_json: key/value pairs and raw lines.         *)
(***************************************************************************)
\* the loop over the identifiers of a VALUE relationship
RECURSIVE ValueIds(_, _, _)
ValueIds(bs, ids, acc) ==
    IF ids = <<>> THEN acc
    ELSE IF blocks_map_get(bs, Head(ids)) = 0 THEN ValueIds(bs, Tail(ids), acc)
    ELSE With(get_text_and_confidence_from_block(bs[blocks_map_get(bs, Head(ids))], bs),
              LAMBDA r :
                ValueIds(bs, Tail(ids),
                   [value_text |-> acc.value_text \o r.text \o <<" ">>,
                    value_confidence |-> Max2(acc.value_confidence, r.confidence)]))

\* the loop over the key's relationships without its break
RECURSIVE ValueRels_nobreak(_, _, _)
ValueRels_nobreak(bs, rels, acc) ==
    IF rels = <<>> THEN acc
    ELSE ValueRels_nobreak(bs, Tail(rels),
             IF Head(rels).Type = "VALUE" THEN ValueIds(bs, Head(rels).Ids, acc) ELSE acc)

\* the loop over the key's relationships: it breaks after the first VALUE one
RECURSIVE ValueRels(_, _, _)
ValueRels(bs, rels, acc) ==
    IF rels = <<>> THEN acc
    ELSE IF Head(rels).Type = "VALUE" THEN ValueIds(bs, Head(rels).Ids, acc)
    ELSE ValueRels(bs, Tail(rels), acc)

\* the entry of keyValuePairs for one key block without the strip of the value
KeyValuePair_unstripped(bs, k) ==
    With(get_text_and_confidence_from_block(bs[k], bs), LAMBDA key :
    With(ValueRels(bs, bs[k].Relationships, [value_text |-> <<>>, value_confidence |-> 0]),
         LAMBDA value :
        [key |-> Strip(key.text),
         keyConfidence |-> Round2(key.confidence, 1),
         value |-> value.value_text,
         valueConfidence |-> Round2(value.value_confidence, 1),
         keyGeometry |-> bs[k].Geometry,
         pageNumber |-> bs[k].Page]))

\* the entry of keyValuePairs for one key block
KeyValuePair(bs, k) ==
    With(get_text_and_confidence_from_block(bs[k], bs), LAMBDA key :
    With(ValueRels(bs, bs[k].Relationships, [value_text |-> <<>>, value_confidence |-> 0]),
         LAMBDA value :
        [key |-> Strip(key.text),
         keyConfidence |-> Round2(key.confidence, 1),
         value |-> Strip(value.value_text),
         valueConfidence |-> Round2(value.value_confidence, 1),
         keyGeometry |-> bs[k].Geometry,
         pageNumber |-> bs[k].Page]))

\* keys: the KEY_VALUE_SET blocks tagged KEY, in list order
KeyBlocks(bs) ==
    SelectSeq(BlocksOfType(bs, "KEY_VALUE_SET"), LAMBDA k : "KEY" \in bs[k].EntityTypes)

RawLine(bs, l) ==
    With(get_text_and_confidence_from_block(bs[l], bs), LAMBDA r :
        [lineId |-> bs[l].Id,
         text |-> r.text,
         confidence |-> Round2(r.confidence, 1),
         geometry |-> bs[l].Geometry,
         pageNumber |-> bs[l].Page])

\* output_json once the tables are built
OutputJson(bs, st) ==
    [pageCount |-> Len(BlocksOfType(bs, "PAGE")),
     tables |-> st.tables,
     keyValuePairs |->
        With(KeyBlocks(st.bs), LAMBDA keys :
            [i \in 1..Len(keys) |-> KeyValuePair(st.bs, keys[i])]),
     rawLines |->
        With(BlocksOfType(st.bs, "LINE"), LAMBDA line_blocks :
            [i \in 1..Len(line_blocks) |-> RawLine(st.bs, line_blocks[i])])]

\* one call: the block list it leaves (bs), output_json unless an exception
\* left it (raised), and the table block each table record was built from
parse_blocks_to_structured_json(bs) ==
    With(JsonTables([bs |-> bs, tables |-> <<>>, from |-> <<>>, raised |-> FALSE],
                    BlocksOfType(bs, "TABLE")), LAMBDA st :
        [bs |-> st.bs,
         raised |-> st.raised,
         from |-> st.from,
         output_json |-> IF st.raised THEN <<>> ELSE <<OutputJson(bs, st)>>])

(***************************************************************************)
(* Inputs of the resolver: one parent block over a pool of children.       *)
(***************************************************************************)
ChildPool ==
    << [Block("wa", "WORD") EXCEPT !.Text = << <<"a">> >>, !.Confidence = <<90127>>],
       [Block("ws", "WORD") EXCEPT !.Text = << <<" ">> >>, !.Confidence = <<30000>>],
       [Block("w0", "WORD") EXCEPT !.Text = << <<>> >>],
       [Block("s1", "SELECTION_ELEMENT") EXCEPT
            !.SelectionStatus = <<"SELECTED">>, !.Confidence = <<80000>>],
       [Block("ln", "LINE") EXCEPT !.Text = << <<"c">> >>, !.Confidence = <<70000>>] >>

\* "zz" names no block of the pool
PoolIds == {ChildPool[i].Id : i \in 1..Len(ChildPool)} \cup {"zz"}

RelTypes == {"CHILD", "VALUE"}

\* the ways to hang the identifiers ids on a block: no relationship, one
\* relationship, or two consecutive ones
RelationshipsOver(ids) ==
    (IF ids = <<>> THEN {<<>>} ELSE {})
    \cup {<<Rel(t, ids)>> : t \in RelTypes}
    \cup {<<Rel(t[1], SubSeq(ids, 1, k)), Rel(t[2], SubSeq(ids, k + 1, Len(ids)))>> :
            k \in 1..(Len(ids) - 1), t \in RelTypes \X RelTypes}

OwnTexts == {<<>>, << <<>> >>, << <<"x">> >>}
OwnConfidences == {<<>>, <<5000>>, <<99000>>}

\* one parent block over the pool of children
ResolverDoc(t, c, r) ==
    << [Block("p", "LINE") EXCEPT !.Text = t, !.Confidence = c, !.Relationships = r] >>
    \o ChildPool

(***************************************************************************)
(* Inputs of the key/value extractor: one key block over a pool of value   *)
(* blocks, and Scenario B.                                                 *)
(***************************************************************************)
ValuePool ==
    << [Block("v1", "KEY_VALUE_SET") EXCEPT
            !.EntityTypes = {"VALUE"}, !.Relationships = <<Rel("CHILD", <<"wa", "s1">>)>>],
       [Block("v2", "KEY_VALUE_SET") EXCEPT
            !.EntityTypes = {"VALUE"}, !.Text = << <<"y">> >>, !.Confidence = <<95004>>],
       [Block("v3", "KEY_VALUE_SET") EXCEPT
            !.EntityTypes = {"VALUE"}, !.Relationships = <<Rel("CHILD", <<"ws">>)>>] >>

ValueIdPool == {"v1", "v2", "v3", "wa", "zz"}

KeyOwnTexts == {<<>>, << <<"k", " ">> >>}

\* one key block over the pools of value blocks and of children
KVDoc(t, r) ==
    << [Block("k", "KEY_VALUE_SET") EXCEPT
            !.EntityTypes = {"KEY"}, !.Text = t, !.Confidence = <<98000>>,
            !.Page = <<1>>, !.Relationships = r] >> \o ValuePool \o ChildPool

\* the kinds of LINE block of a document without tables: "own" carries its
\* text itself, "words" in a WORD and a SELECTION_ELEMENT child, "blank" has
\* neither text nor children
LineKinds == {"own", "words", "blank"}

\* a document of LINE blocks of these kinds, in order, over the pool of children
LinesDoc(kinds) ==
    [i \in 1..Len(kinds) |->
        [Block("l" \o ToString(i), "LINE") EXCEPT
            !.Text = IF kinds[i] = "own" THEN << <<"o", ToString(i)>> >> ELSE <<>>,
            !.Confidence = <<70000>>,
            !.Relationships = IF kinds[i] = "words"
                              THEN <<Rel("CHILD", <<"wa", "s1">>)>> ELSE <<>>]]
    \o SubSeq(ChildPool, 1, 4)

Chars_Date == <<"D", "a", "t", "e">>
Chars_01_01_2024 == <<"0", "1", "/", "0", "1", "/", "2", "0", "2", "4">>

\* Scenario B: a KEY block "Date" of confidence 98 with one VALUE relationship
\* to a block resolving to "01/01/2024" of confidence 95
ScenarioB ==
    << [Block("key", "KEY_VALUE_SET") EXCEPT
            !.EntityTypes = {"KEY"}, !.Confidence = <<98000>>,
            !.Relationships = <<Rel("CHILD", <<"kw">>), Rel("VALUE", <<"val">>)>>],
       [Block("kw", "WORD") EXCEPT !.Text = <<Chars_Date>>, !.Confidence = <<98000>>],
       [Block("val", "KEY_VALUE_SET") EXCEPT
            !.EntityTypes = {"VALUE"}, !.Confidence = <<95000>>,
            !.Relationships = <<Rel("CHILD", <<"vw">>)>>],
       [Block("vw", "WORD") EXCEPT !.Text = <<Chars_01_01_2024>>, !.Confidence = <<95000>>] >>

(***************************************************************************)
(* Inputs of the table builders.                                           *)
(***************************************************************************)
BoundingBox(left, top, width, height) ==
    << [BoundingBox |-> << [Left |-> left, Top |-> top, Width |-> width, Height |-> height] >>] >>

Word(id, text, conf, geometry) ==
    [Block(id, "WORD") EXCEPT !.Text = <<text>>, !.Confidence = <<conf>>, !.Geometry = geometry]

\* words of a table, in thousandths of the page: w1..w4 form a clean 2x2
\* layout, w5 and w6 lie close to w1, w7 and w8 have no usable bounding box,
\* w9 has no width
WordPool ==
    << Word("w1", <<"a">>, 90127, BoundingBox(<<100>>, <<100>>, <<100>>, <<20>>)),
       Word("w2", <<"b">>, 95000, BoundingBox(<<500>>, <<100>>, <<100>>, <<20>>)),
       Word("w3", <<"c">>, 80000, BoundingBox(<<100>>, <<300>>, <<100>>, <<20>>)),
       Word("w4", <<"d">>, 70000, BoundingBox(<<500>>, <<300>>, <<100>>, <<20>>)),
       Word("w5", <<"e">>, 60004, BoundingBox(<<104>>, <<108>>, <<8>>, <<10>>)),
       Word("w6", <<"f">>, 50000, BoundingBox(<<300>>, <<116>>, <<6>>, <<40>>)),
       Word("w7", <<"g">>, 40000, <<>>),
       Word("w8", <<"h">>, 30000, BoundingBox(<<100>>, <<100>>, <<>>, <<20>>)),
       Word("w9", <<"i">>, 20000, BoundingBox(<<100>>, <<100>>, <<0>>, <<10>>)) >>

WordIds == {WordPool[i].Id : i \in 1..Len(WordPool)}

CellId(i) == "c" \o ToString(i)

\* a table whose i-th cell holds the i-th word of ws
OneWordPerCell(ws) ==
    << [Block("t1", "TABLE") EXCEPT
            !.Page = <<1>>,
            !.Relationships = <<Rel("CHILD", [i \in 1..Len(ws) |-> CellId(i)])>>] >>
    \o [i \in 1..Len(ws) |->
            [Block(CellId(i), "CELL") EXCEPT
                !.RowIndex = <<1>>, !.ColumnIndex = <<i>>,
                !.Relationships = <<Rel("CHILD", <<ws[i]>>)>>]]
    \o WordPool

\* a table of one cell that holds the words of ws below a LINE block
OneLineInOneCell(ws) ==
    << [Block("t1", "TABLE") EXCEPT !.Relationships = <<Rel("CHILD", <<"c1">>)>>],
       [Block("c1", "CELL") EXCEPT
            !.RowIndex = <<1>>, !.ColumnIndex = <<1>>,
            !.Relationships = <<Rel("CHILD", <<"l1">>)>>],
       [Block("l1", "LINE") EXCEPT !.Relationships = <<Rel("CHILD", ws)>>] >>
    \o WordPool

\* the i-th cell of a table without word geometry: cells at odd positions
\* carry their text themselves, cells at even positions in a WORD child
CellTexts == << <<"a">>, <<"b">>, <<"c">>, <<"d">> >>
CellWordId(i) == "x" \o ToString(i)

StructuralCell(i, shape) ==
    [Block(CellId(i), "CELL") EXCEPT
        !.RowIndex = <<shape.row>>, !.ColumnIndex = <<shape.col>>,
        !.RowSpan = shape.row_span, !.ColumnSpan = shape.col_span,
        !.Confidence = <<90127>>,
        !.Text = IF i % 2 = 1 THEN <<CellTexts[((i - 1) % 4) + 1]>> ELSE <<>>,
        !.Relationships = IF i % 2 = 1 THEN <<>> ELSE <<Rel("CHILD", <<CellWordId(i)>>)>>]

CellShapes ==
    [row : 1..2, col : 1..2, row_span : {<<>>, <<2>>}, col_span : {<<>>, <<2>>}]

\* the ways a table lists its cells: directly, below one MERGED_CELL, or both
TableListings(n) ==
    LET ids == [i \in 1..n |-> CellId(i)]
    IN  {<<Rel("CHILD", ids)>>,
         <<Rel("CHILD", <<"m1">>)>>,
         <<Rel("VALUE", ids), Rel("CHILD", <<"m1">> \o ids)>>}

\* a table of the cells of these shapes, listed this way
StructuralDoc(shapes, listing) ==
    << [Block("t1", "TABLE") EXCEPT !.Page = <<2>>, !.Relationships = listing] >>
    \o [i \in 1..Len(shapes) |-> StructuralCell(i, shapes[i])]
    \o << [Block("m1", "MERGED_CELL") EXCEPT
              !.Relationships =
                  <<Rel("CHILD", [i \in 1..Len(shapes) |-> CellId(Len(shapes) + 1 - i)])>>] >>
    \o [i \in 1..Len(shapes) |->
           Word(CellWordId(i), CellTexts[((i - 1) % 4) + 1], 80000, <<>>)]

Chars_Name == <<"N", "a", "m", "e">>
Chars_Age == <<"A", "g", "e">>

\* Scenario A: one table with the cells (1, 1, "Name") and (1, 2, "Age"), both
\* of span 1x1; the cells carry their text themselves, or in WORD children
\* that have no geometry
ScenarioA_OwnText ==
    << Block("page", "PAGE"),
       [Block("t1", "TABLE") EXCEPT !.Relationships = <<Rel("CHILD", <<"c1", "c2">>)>>],
       [Block("c1", "CELL") EXCEPT
            !.RowIndex = <<1>>, !.ColumnIndex = <<1>>, !.RowSpan = <<1>>,
            !.ColumnSpan = <<1>>, !.Text = <<Chars_Name>>, !.Confidence = <<99000>>],
       [Block("c2", "CELL") EXCEPT
            !.RowIndex = <<1>>, !.ColumnIndex = <<2>>, !.RowSpan = <<1>>,
            !.ColumnSpan = <<1>>, !.Text = <<Chars_Age>>, !.Confidence = <<99000>>] >>

ScenarioA_Words ==
    << Block("page", "PAGE"),
       [Block("t1", "TABLE") EXCEPT !.Relationships = <<Rel("CHILD", <<"c1", "c2">>)>>],
       [Block("c1", "CELL") EXCEPT
            !.RowIndex = <<1>>, !.ColumnIndex = <<1>>, !.RowSpan = <<1>>,
            !.ColumnSpan = <<1>>, !.Relationships = <<Rel("CHILD", <<"n">>)>>],
       [Block("c2", "CELL") EXCEPT
            !.RowIndex = <<1>>, !.ColumnIndex = <<2>>, !.RowSpan = <<1>>,
            !.ColumnSpan = <<1>>, !.Relationships = <<Rel("CHILD", <<"a">>)>>],
       Word("n", Chars_Name, 99000, <<>>),
       Word("a", Chars_Age, 99000, <<>>) >>

\* Scenario A with the two words where an OCR pass puts them: side by side on
\* one line, each with its bounding box
ScenarioA_Geometry ==
    SubSeq(ScenarioA_Words, 1, 4)
    \o << Word("n", Chars_Name, 99000, BoundingBox(<<100>>, <<100>>, <<100>>, <<20>>)),
          Word("a", Chars_Age, 99000, BoundingBox(<<500>>, <<100>>, <<100>>, <<20>>)) >>

\* Scenario C: a table without cell blocks whose four words w1..w4 form a
\* clean 2x2 layout; and the same four words, each below a cell of its own
ScenarioC_NoCells ==
    << [Block("t1", "TABLE") EXCEPT
            !.Relationships = <<Rel("CHILD", <<"w1", "w2", "w3", "w4">>)>>] >>
    \o WordPool

ScenarioC_Cells == OneWordPerCell(<<"w1", "w2", "w3", "w4">>)

\* the kinds of table of a document of several tables: "spatial" has two
\* words with bounding boxes side by side, "structural" one cell of two
\* columns with its own text, "empty" no cell block, "broken" one cell
\* without RowIndex
TableKinds == {"spatial", "structural", "empty", "broken"}

TableId(j) == "t" \o ToString(j)

\* the blocks of the j-th table of a document, of the given kind
TableOfKind(j, kind) ==
    << [Block(TableId(j), "TABLE") EXCEPT
            !.Page = <<j>>,
            !.Relationships =
                IF kind = "empty" THEN <<>>
                ELSE <<Rel("CHILD", <<TableId(j) \o "c1">>)>>] >>
    \o (IF kind = "empty" THEN <<>>
        ELSE << [Block(TableId(j) \o "c1", "CELL") EXCEPT
                    !.RowIndex = IF kind = "broken" THEN <<>> ELSE <<1>>,
                    !.ColumnIndex = <<1>>,
                    !.ColumnSpan = IF kind = "structural" THEN <<2>> ELSE <<>>,
                    !.Text = IF kind \in {"structural", "broken"}
                             THEN << <<"s", ToString(j)>> >> ELSE <<>>,
                    !.Confidence = <<90127>>,
                    !.Relationships =
                        IF kind = "spatial"
                        THEN <<Rel("CHILD", <<TableId(j) \o "w1", TableId(j) \o "w2">>)>>
                        ELSE <<>>] >>)
    \o (IF kind = "spatial"
        THEN << Word(TableId(j) \o "w1", <<"a", ToString(j)>>, 90127,
                     BoundingBox(<<100>>, <<100>>, <<100>>, <<20>>)),
                Word(TableId(j) \o "w2", <<"b", ToString(j)>>, 95000,
                     BoundingBox(<<500>>, <<100>>, <<100>>, <<20>>)) >>
        ELSE <<>>)

\* a document of the tables of these kinds, in order, followed by a key block
\* and a LINE block
RECURSIVE TablesOfKinds(_, _)
TablesOfKinds(kinds, j) ==
    IF j > Len(kinds) THEN <<>>
    ELSE TableOfKind(j, kinds[j]) \o TablesOfKinds(kinds, j + 1)

SeveralTables(kinds) ==
    TablesOfKinds(kinds, 1)
    \o << [Block("k", "KEY_VALUE_SET") EXCEPT
              !.EntityTypes = {"KEY"}, !.Text = << <<"k">> >>, !.Confidence = <<98000>>],
          [Block("l", "LINE") EXCEPT !.Text = << <<"c">> >>, !.Confidence = <<70000>>] >>

ScenarioDocs ==
    {ScenarioA_OwnText, ScenarioA_Words, ScenarioA_Geometry, ScenarioC_NoCells, ScenarioC_Cells}

(***************************************************************************)
(* Actions.                                                                *)
(***************************************************************************)
\* one call get_text_and_confidence_from_block(blocks[i], blocks_map)
Resolve(i) ==
    /\ resolved' = <<[block |-> i] @@ get_text_and_confidence_from_block(blocks[i], blocks)>>
    /\ UNCHANGED <<blocks, spatialOut, csvOut, jsonOut, handler, fold>>

\* what one call leaves: the block list, and with the value returned the
\* lengths it printed on its way, the words as sorted by their top edge and
\* the rows as the loop over them formed them
ReconstructCall(bs, t) ==
    With(Reconstruction(bs, t), LAMBDA rec :
        [bs |-> rec.bs,
         out |-> [table |-> t,
                  result |-> rec.result,
                  word_blocks |-> Len(rec.word_blocks),
                  spatial_words |-> Len(rec.spatial_words),
                  rows |-> Len(rec.rows),
                  column_boundaries |-> Len(rec.column_boundaries),
                  sorted_words |-> rec.spatial_words,
                  clustered |-> rec.clustered]])

\* one call reconstruct_table_structure_spatially(blocks[t], blocks_map)
Reconstruct(t) ==
    /\ Len(spatialOut) < MaxRuns
    /\ blocks[t].BlockType = "TABLE"
    /\ LET call == ReconstructCall(blocks, t)
       IN  /\ blocks' = call.bs
           /\ spatialOut' = Append(spatialOut, call.out)
    /\ UNCHANGED <<resolved, csvOut, jsonOut, handler, fold>>

\* what the two calls of lambda_handler leave: the block list and the outcome
CsvCall(bs) ==
    With(parse_tables_to_csv_data(bs), LAMBDA r :
        [bs |-> r.bs,
         out |-> [raised |-> r.raised, all_csv_rows |-> r.all_csv_rows, log |-> r.log]])

JsonCall(bs) ==
    With(parse_blocks_to_structured_json(bs), LAMBDA r :
        [bs |-> r.bs,
         out |-> [raised |-> r.raised, from |-> r.from, output_json |-> r.output_json]])

\* csv_data_rows = parse_tables_to_csv_data(blocks, blocks_map)
ParseCsv ==
    /\ csvOut = <<>>
    /\ LET call == CsvCall(blocks)
       IN  /\ blocks' = call.bs
           /\ csvOut' = <<call.out>>
    /\ UNCHANGED <<resolved, spatialOut, jsonOut, handler, fold>>

\* structured_json_data = parse_blocks_to_structured_json(...); lambda_handler
\* calls it after parse_tables_to_csv_data has returned
ParseJson ==
    /\ csvOut # <<>> /\ ~csvOut[1].raised
    /\ jsonOut = <<>>
    /\ LET call == JsonCall(blocks)
       IN  /\ blocks' = call.bs
           /\ jsonOut' = <<call.out>>
    /\ UNCHANGED <<resolved, spatialOut, csvOut, handler, fold>>

\* webhook_payload as lambda_handler initialises it (lines 803-811); the two
\* URLs are set and left with the two keys and are not modelled apart
InitialPayload ==
    [status |-> <<>>, jsonS3Key |-> <<>>, csvS3Key |-> <<>>, errorMessage |-> <<>>]

\* a handler that has not been invoked; WEBHOOK_URL tells whether the
\* environment sets APPLICATION_WEBHOOK_URL (line 26), fetch_called whether
\* get_textract_results was called, sent lists the payloads posted
NoInvocation ==
    [pc |-> "idle", event |-> <<>>, WEBHOOK_URL |-> FALSE,
     webhook_payload |-> InitialPayload, fetch_called |-> FALSE,
     stored |-> {}, sent |-> <<>>, statusCode |-> 0]

\* no loop over unique_x_positions is under way
NoFold ==
    [pc |-> "idle", unique_x_positions |-> <<>>, i |-> 0, boundary_tolerance |-> FInt(0),
     column_boundaries |-> <<>>, column_ranges |-> <<>>]

\* nothing has been called yet
NoCalls ==
    /\ resolved = <<>>
    /\ spatialOut = <<>>
    /\ csvOut = <<>>
    /\ jsonOut = <<>>
    /\ handler = NoInvocation
    /\ fold = NoFold

\* the resolver on its own
InitResolver ==
    /\ \E t \in OwnTexts, c \in OwnConfidences, ids \in SeqsUpTo(PoolIds, MaxIds) :
          \E r \in RelationshipsOver(ids) : blocks = ResolverDoc(t, c, r)
    /\ NoCalls

NextResolver == \E i \in 1..Len(blocks) : Resolve(i)
SpecResolver == InitResolver /\ [][NextResolver]_vars

\* the two assemblers and the spatial reconstructor over tables
InitTables ==
    /\ \/ \E ws \in SeqsUpTo(WordIds, MaxWords) : blocks = OneWordPerCell(ws)
       \/ \E ws \in SeqsUpTo(WordIds, MaxIds) : blocks = OneLineInOneCell(ws)
       \/ \E shapes \in SeqsUpTo(CellShapes, MaxCells) :
             \E listing \in TableListings(Len(shapes)) :
                blocks = StructuralDoc(shapes, listing)
       \/ \E kinds \in SeqsUpTo(TableKinds, MaxTables) : blocks = SeveralTables(kinds)
       \/ blocks \in ScenarioDocs
    /\ NoCalls

NextTables == (\E t \in 1..Len(blocks) : Reconstruct(t)) \/ ParseCsv \/ ParseJson
SpecTables == InitTables /\ [][NextTables]_vars

\* the two assemblers over key/value sets
InitKV ==
    /\ \/ \E t \in KeyOwnTexts, ids \in SeqsUpTo(ValueIdPool, MaxIds) :
             \E r \in RelationshipsOver(ids) : blocks = KVDoc(t, r)
       \/ \E kinds \in SeqsUpTo(LineKinds, MaxLines) : blocks = LinesDoc(kinds)
       \/ blocks = ScenarioB
    /\ NoCalls

NextKV == ParseCsv \/ ParseJson
SpecKV == InitKV /\ [][NextKV]_vars

(***************************************************************************)
(* lambda_handler: one invocation, step by step. What the outside world    *)
(* decides (whether the notification parses, the job status, whether the   *)
(* fetch and each put_object succeed) is chosen freely.                    *)
(***************************************************************************)
\* the events: a notification that does not parse, because its Message is
\* not JSON (decodes FALSE) or lacks a Records entry, JobId or Status, or one
\* with a job status
Events ==
    [malformed : {TRUE}, decodes : BOOLEAN, Status : {"SUCCEEDED"}]
    \cup [malformed : {FALSE}, decodes : {TRUE}, Status : {"SUCCEEDED", "FAILED"}]

\* _send_webhook: the payloads posted after the call; nothing is posted
\* without WEBHOOK_URL, and a failure of the request is caught
send_webhook(h, payload) ==
    IF h.WEBHOOK_URL THEN Append(h.sent, payload) ELSE h.sent

\* the return of a failure branch: status 'failed', the payload sent
Failed(h, code) ==
    With([h.webhook_payload EXCEPT !.status = <<"failed">>, !.errorMessage = <<"error">>],
         LAMBDA payload :
            [h EXCEPT !.pc = "done", !.webhook_payload = payload,
                      !.sent = send_webhook(h, payload), !.statusCode = code])

\* lines 774-823: the notification is parsed and the job status examined;
\* json.loads raises json.JSONDecodeError, a ValueError, which the except
\* clause (KeyError, IndexError, TypeError) does not catch
ParseNotification ==
    /\ handler.pc = "start"
    /\ handler' =
          IF ~handler.event[1].decodes
          THEN [handler EXCEPT !.pc = "raised"]
          ELSE IF handler.event[1].malformed
          THEN [handler EXCEPT !.pc = "done", !.statusCode = 400]
          ELSE IF handler.event[1].Status # "SUCCEEDED"
          THEN Failed(handler, 200)
          ELSE [handler EXCEPT !.pc = "fetch"]
    /\ UNCHANGED <<blocks, resolved, spatialOut, csvOut, jsonOut, fold>>

\* lines 826-837: get_textract_results returns the blocks or raises
GetResults ==
    /\ handler.pc = "fetch"
    /\ \E fetched \in BOOLEAN :
          handler' =
             With([handler EXCEPT !.fetch_called = TRUE], LAMBDA h :
                IF ~fetched THEN Failed(h, 500)
                ELSE IF blocks = <<>> THEN Failed(h, 200)
                ELSE [h EXCEPT !.pc = "csv"])
    /\ UNCHANGED <<blocks, resolved, spatialOut, csvOut, jsonOut, fold>>

\* lines 859-876 after the call: the rows are stored when there are any
AfterCsv(h, out, put_ok) ==
    IF out.raised THEN Failed(h, 500)
    ELSE IF out.all_csv_rows = <<>> THEN [h EXCEPT !.pc = "json"]
    ELSE IF ~put_ok THEN Failed(h, 500)
    ELSE [h EXCEPT !.pc = "json", !.stored = h.stored \cup {"csv"},
                   !.webhook_payload.csvS3Key = <<"csv_s3_key_val">>]

\* lines 879-900 after the call: the record is stored and success reported
AfterJson(h, out, put_ok) ==
    IF out.raised \/ ~put_ok THEN Failed(h, 500)
    ELSE With([h.webhook_payload EXCEPT !.jsonS3Key = <<"json_s3_key_val">>,
                                        !.status = <<"processed">>],
              LAMBDA payload :
                 [h EXCEPT !.pc = "done", !.stored = h.stored \cup {"json"},
                           !.webhook_payload = payload,
                           !.sent = send_webhook(h, payload), !.statusCode = 200])

\* lines 858-876
GenerateCsv ==
    /\ handler.pc = "csv"
    /\ \E put_ok \in BOOLEAN :
          LET call == CsvCall(blocks)
          IN  /\ blocks' = call.bs
              /\ csvOut' = <<call.out>>
              /\ handler' = AfterCsv(handler, call.out, put_ok)
    /\ UNCHANGED <<resolved, spatialOut, jsonOut, fold>>

\* lines 878-900
GenerateJson ==
    /\ handler.pc = "json"
    /\ \E put_ok \in BOOLEAN :
          LET call == JsonCall(blocks)
          IN  /\ blocks' = call.bs
              /\ jsonOut' = <<call.out>>
              /\ handler' = AfterJson(handler, call.out, put_ok)
    /\ UNCHANGED <<resolved, spatialOut, csvOut, fold>>

\* an invocation on an event, for a job whose result is no block at all or a
\* document of several tables
InitHandler ==
    /\ \/ blocks = <<>>
       \/ \E kinds \in SeqsUpTo(TableKinds, MaxTables) : blocks = SeveralTables(kinds)
    /\ resolved = <<>>
    /\ spatialOut = <<>>
    /\ csvOut = <<>>
    /\ jsonOut = <<>>
    /\ \E event \in Events, url \in BOOLEAN :
          handler = [NoInvocation EXCEPT !.pc = "start", !.event = <<event>>,
                                         !.WEBHOOK_URL = url]
    /\ fold = NoFold

NextHandler == ParseNotification \/ GetResults \/ GenerateCsv \/ GenerateJson
SpecHandler == InitHandler /\ [][NextHandler]_vars

(***************************************************************************)
(* The column boundaries of reconstruct_table_structure_spatially, step by *)
(* step: the loop over unique_x_positions (lines 656-669), the sort (671), *)
(* the validation and the column ranges (674-686).                         *)
(***************************************************************************)
\* left and right edges of words, in thousandths of the page
PositionPool == {100, 104, 112, 121, 500, 512, 1600}

\* one iteration of "for x_pos in unique_x_positions"
FoldStep ==
    /\ fold.pc = "fold"
    /\ fold.i <= Len(fold.unique_x_positions)
    /\ fold' = [fold EXCEPT
                  !.column_boundaries =
                      FoldBoundary(fold.column_boundaries,
                                   fold.unique_x_positions[fold.i],
                                   fold.boundary_tolerance),
                  !.i = fold.i + 1]
    /\ UNCHANGED <<blocks, resolved, spatialOut, csvOut, jsonOut, handler>>

\* column_boundaries.sort()
SortBoundaries ==
    /\ fold.pc = "fold"
    /\ fold.i > Len(fold.unique_x_positions)
    /\ fold' = [fold EXCEPT !.column_boundaries = SortFracs(fold.column_boundaries),
                            !.pc = "sorted"]
    /\ UNCHANGED <<blocks, resolved, spatialOut, csvOut, jsonOut, handler>>

\* the validation of the boundaries and the column ranges
CreateRanges ==
    /\ fold.pc = "sorted"
    /\ fold' = IF TooFewBoundaries(fold.column_boundaries)
               THEN [fold EXCEPT !.pc = "none"]
               ELSE [fold EXCEPT !.column_ranges = ColumnRanges(fold.column_boundaries),
                                 !.pc = "ranges"]
    /\ UNCHANGED <<blocks, resolved, spatialOut, csvOut, jsonOut, handler>>

\* the loop is entered with the sorted distinct edges of the words of the
\* rows and the tolerance of their extent
InitFold ==
    /\ blocks = <<>>
    /\ resolved = <<>>
    /\ spatialOut = <<>>
    /\ csvOut = <<>>
    /\ jsonOut = <<>>
    /\ handler = NoInvocation
    /\ \E edges \in SUBSET PositionPool :
          /\ Cardinality(edges) \in 1..MaxEdges
          /\ LET unique_x_positions == SortedSet(edges)
             IN  fold = [NoFold EXCEPT
                            !.pc = "fold",
                            !.unique_x_positions = unique_x_positions,
                            !.i = 1,
                            !.boundary_tolerance =
                                boundary_tolerance(
                                    unique_x_positions[Len(unique_x_positions)]
                                    - unique_x_positions[1])]

NextFold == FoldStep \/ SortBoundaries \/ CreateRanges
SpecFold == InitFold /\ [][NextFold]_vars

(***************************************************************************)
(* Claims about get_text_and_confidence_from_block.                        *)
(***************************************************************************)
\* the blocks a CHILD relationship of b reaches that are WORD or
\* SELECTION_ELEMENT blocks: the children that append a text and a confidence
ContributingChildren(b) ==
    {k \in 1..Len(blocks) :
        /\ blocks[k].BlockType \in {"WORD", "SELECTION_ELEMENT"}
        /\ \E r \in 1..Len(b.Relationships) :
              /\ b.Relationships[r].Type = "CHILD"
              /\ \E j \in 1..Len(b.Relationships[r].Ids) :
                    blocks_map_get(blocks, b.Relationships[r].Ids[j]) = k}

\* a child whose appended text is not blank (a selection marker never is)
HasInk(k) ==
    \/ blocks[k].BlockType = "SELECTION_ELEMENT"
    \/ \E c \in Range(blocks[k].Text[1]) : ~IsSpace(c)

IsMinOver(v, S) ==
    /\ \A k \in S : v <= ConfidenceOr0(blocks[k])
    /\ \E k \in S : v = ConfidenceOr0(blocks[k])

\* C7 as stated: with N >= 1 contributing children the confidence is the
\* minimum of the children's confidences; with none and no own Text the result
\* is ("", 0.0).
C7_AsStated ==
    \A n \in 1..Len(resolved) :
        LET r == resolved[n]
            b == blocks[r.block]
            C == ContributingChildren(b)
        IN  /\ C # {} => IsMinOver(r.confidence, C)
            /\ (C = {} /\ b.Text = <<>>) => (r.text = <<>> /\ r.confidence = 0)

\* C7 amended: the minimum is over the children alone when the text joined from
\* the children is not empty or the block has no Text field of its own;
\* otherwise the block's own confidence enters the minimum as well.
C7_MinOfChildren ==
    \A n \in 1..Len(resolved) :
        LET r == resolved[n]
            b == blocks[r.block]
            C == ContributingChildren(b)
        IN  /\ (C # {} /\ ((\E k \in C : HasInk(k)) \/ b.Text = <<>>))
                => IsMinOver(r.confidence, C)
            /\ (C = {} /\ b.Text = <<>>) => (r.text = <<>> /\ r.confidence = 0)

\* a call on a block with two contributing children of different confidence
\* whose joined text is not empty
C7_Witness ==
    \E n \in 1..Len(resolved) :
        LET r == resolved[n]
            C == ContributingChildren(blocks[r.block])
        IN  /\ \E k, m \in C : /\ ConfidenceOr0(blocks[k]) < ConfidenceOr0(blocks[m])
                               /\ r.confidence = ConfidenceOr0(blocks[k])
            /\ r.text # <<>>
            /\ blocks[r.block].Text # <<>>

\* C8: whenever the text joined from the children is empty and the block has a
\* Text field, the result is the block's own text with the block's own
\* confidence, whatever children it has.
C8_OwnTextOwnConfidence ==
    \A n \in 1..Len(resolved) :
        LET r == resolved[n]
            b == blocks[r.block]
            C == ContributingChildren(b)
        IN  ((\A k \in C : ~HasInk(k)) /\ b.Text # <<>>)
                => /\ r.text = Strip(b.Text[1])
                   /\ r.confidence = ConfidenceOr0(b)

(***************************************************************************)
(* Claims about the structural table builder.                              *)
(***************************************************************************)
\* the resolved text of the cell block k
CellText(k) == get_text_and_confidence_from_block(blocks[k], blocks).text

\* the declared position of the cell block k
TopLeft(k) == <<blocks[k].RowIndex[1], blocks[k].ColumnIndex[1]>>

\* the tables parse_tables_to_csv_data built by the structural path
StructuralEntries ==
    IF csvOut = <<>> \/ csvOut[1].raised THEN {}
    ELSE {e \in Range(csvOut[1].log) : e.path = "structural"}

\* the grid value of the table of e at the position p
GridAt(e, p) == csvOut[1].all_csv_rows[e.first + p[1] - 1][p[2]]

\* the text of the last cell of the list cells declared at p, "" if none is
LastDeclaredAt(cells, p) ==
    LET at == {i \in 1..Len(cells) : TopLeft(cells[i]) = p}
    IN  IF at = {} THEN <<>>
        ELSE CellText(cells[CHOOSE i \in at : \A j \in at : j <= i])

\* C1 as stated: whatever the other cells of the table are, the grid holds
\* every cell's resolved text at its top-left position and the empty string at
\* each of the other positions its span covers.
C1_AsStated ==
    \A e \in StructuralEntries :
        \A k \in Range(cell_blocks_in_table(blocks, e.table)) :
            /\ GridAt(e, TopLeft(k)) = CellText(k)
            /\ \A p \in CoveredPositions(blocks[k]) \ {TopLeft(k)} : GridAt(e, p) = <<>>

\* C1 amended: a position covered by some cell's span holds the resolved text
\* of the last listed cell declared at that position, and the empty string
\* when no cell is declared there.
C1_TopLeftOnly ==
    \A e \in StructuralEntries :
        LET cells == cell_blocks_in_table(blocks, e.table)
        IN  \A k \in Range(cells) :
                \A p \in CoveredPositions(blocks[k]) :
                    GridAt(e, p) = LastDeclaredAt(cells, p)

\* a structural table with a cell of span 2x2 and non-empty text whose three
\* other covered positions hold the empty string
C1_Witness ==
    \E e \in StructuralEntries :
        \E k \in Range(cell_blocks_in_table(blocks, e.table)) :
            /\ blocks[k].RowSpan = <<2>> /\ blocks[k].ColumnSpan = <<2>>
            /\ GridAt(e, TopLeft(k)) = CellText(k) /\ CellText(k) # <<>>
            /\ \A p \in CoveredPositions(blocks[k]) \ {TopLeft(k)} : GridAt(e, p) = <<>>

\* the table records of the structured record
TableRecords ==
    IF jsonOut = <<>> \/ jsonOut[1].raised THEN <<>>
    ELSE jsonOut[1].output_json[1].tables

\* C2: every table record is a full rectangular grid: rowCount rows of
\* rowIndex 1..rowCount, each of columnCount cells of columnIndex
\* 1..columnCount.
C2_RectangularGrid ==
    \A n \in 1..Len(TableRecords) :
        LET tb == TableRecords[n]
        IN  /\ Len(tb.rows) = tb.rowCount
            /\ \A r \in 1..Len(tb.rows) :
                  /\ tb.rows[r].rowIndex = r
                  /\ Len(tb.rows[r].cells) = tb.columnCount
                  /\ \A c \in 1..Len(tb.rows[r].cells) :
                        tb.rows[r].cells[c].columnIndex = c

(***************************************************************************)
(* Claims about the spatial reconstructor and the two scenarios of tables. *)
(***************************************************************************)
\* the text of the cell (r, c) of a grid the reconstructor returned
SpatialText(grid, r, c) == grid.rows[r].cells[c].text

\* C3: Scenario C: on a table without cell blocks whose four words form a
\* clean 2x2 layout the reconstructor returns a grid of 2 rows and 2 columns
\* whose four cells hold the four words' texts.
C3_ScenarioC ==
    \A n \in 1..Len(spatialOut) :
        blocks = ScenarioC_NoCells =>
            /\ spatialOut[n].result # <<>>
            /\ spatialOut[n].result[1].row_count = 2
            /\ spatialOut[n].result[1].column_count = 2
            /\ SpatialText(spatialOut[n].result[1], 1, 1) = <<"a">>
            /\ SpatialText(spatialOut[n].result[1], 1, 2) = <<"b">>
            /\ SpatialText(spatialOut[n].result[1], 2, 1) = <<"c">>
            /\ SpatialText(spatialOut[n].result[1], 2, 2) = <<"d">>

\* the document has the one table t, whose cells are (1, 1, "Name") and
\* (1, 2, "Age"), both of span 1x1
IsScenarioA(t) ==
    /\ BlocksOfType(blocks, "TABLE") = <<t>>
    /\ LET cells == cell_blocks_in_table(blocks, t)
       IN  /\ Len(cells) = 2
           /\ TopLeft(cells[1]) = <<1, 1>> /\ CellText(cells[1]) = Chars_Name
           /\ TopLeft(cells[2]) = <<1, 2>> /\ CellText(cells[2]) = Chars_Age
           /\ \A i \in 1..2 : RowSpanOr1(blocks[cells[i]]) = 1
                              /\ ColumnSpanOr1(blocks[cells[i]]) = 1

\* what Scenario A expects of the two assemblers, once each has run
ScenarioA_Outcome ==
    /\ csvOut # <<>> => /\ ~csvOut[1].raised
                        /\ csvOut[1].all_csv_rows = << <<Chars_Name, Chars_Age>> >>
    /\ jsonOut # <<>> => /\ ~jsonOut[1].raised
                         /\ Len(TableRecords) = 1
                         /\ TableRecords[1].rowCount = 1
                         /\ TableRecords[1].columnCount = 2
                         /\ TableRecords[1].spatiallyReconstructed = FALSE

\* no word below a cell of the table t has the four numbers of a bounding box
NoWordGeometry(t) ==
    SpatialWords(blocks, CollectTableWords(blocks, t).word_blocks) = <<>>

C5_NoneOrBuilt ==
    \A n \in 1..Len(spatialOut) :
        LET e == spatialOut[n]
        IN  /\ e.spatial_words = 0 => e.result = <<>>
            /\ e.column_boundaries < 2 => e.result = <<>>
            /\ e.result # <<>> =>
                  /\ e.spatial_words >= 1 /\ e.result[1].word_count = e.spatial_words
                  /\ e.column_boundaries >= 2
                  /\ e.result[1].column_count = e.column_boundaries - 1
                  /\ \A r \in 1..Len(e.result[1].rows) :
                        Len(e.result[1].rows[r].cells) = e.result[1].column_count

\* a call that had a valid word, folded its edges into one boundary and
\* returned None
C5_Witness ==
    \E n \in 1..Len(spatialOut) :
        /\ spatialOut[n].spatial_words >= 1
        /\ spatialOut[n].column_boundaries = 1
        /\ spatialOut[n].result = <<>>

\* C6: two calls in succession on the same table, the second seeing the
\* parent_cell annotations the first left, return identical results.
C6_SameResultTwice ==
    \A m, n \in 1..Len(spatialOut) :
        spatialOut[m].table = spatialOut[n].table =>
            spatialOut[m].result = spatialOut[n].result

\* two calls on one table that both returned a grid, with annotated words in
\* the block list
C6_Witness ==
    /\ Len(spatialOut) = 2
    /\ spatialOut[1].table = spatialOut[2].table
    /\ spatialOut[1].result # <<>> /\ spatialOut[2].result # <<>>
    /\ spatialOut[1].result[1].row_count = 2
    /\ \E i \in 1..Len(blocks) : blocks[i].parent_cell # <<>>

(***************************************************************************)
(* Claims about the key/value pairs.                                       *)
(***************************************************************************)
\* keyValuePairs of the structured record; its i-th entry is of the i-th key
Pairs ==
    IF jsonOut = <<>> \/ jsonOut[1].raised THEN <<>>
    ELSE jsonOut[1].output_json[1].keyValuePairs

\* the VALUE relationships of the key block k, in order
ValueRelsOf(k) == SelectSeq(blocks[k].Relationships, LAMBDA r : r.Type = "VALUE")

\* the blocks an identifier list names, in order
RECURSIVE Named(_)
Named(ids) ==
    IF ids = <<>> THEN <<>>
    ELSE (IF blocks_map_get(blocks, Head(ids)) = 0 THEN <<>>
          ELSE <<blocks_map_get(blocks, Head(ids))>>) \o Named(Tail(ids))

\* the value blocks the first VALUE relationship of the key block k names
FirstValueBlocks(k) ==
    IF ValueRelsOf(k) = <<>> THEN <<>> ELSE Named(ValueRelsOf(k)[1].Ids)

ResolvedText(b) == get_text_and_confidence_from_block(blocks[b], blocks).text
ResolvedConfidence(b) == get_text_and_confidence_from_block(blocks[b], blocks).confidence

\* the resolved texts of the blocks vs, each followed by one space
RECURSIVE TextsWithSpace(_)
TextsWithSpace(vs) ==
    IF vs = <<>> THEN <<>>
    ELSE ResolvedText(Head(vs)) \o <<" ">> \o TextsWithSpace(Tail(vs))

\* the largest resolved confidence of the blocks vs, 0 for none
MaxResolvedConfidence(vs) ==
    IF vs = <<>> THEN 0
    ELSE MaxSeq([i \in 1..Len(vs) |-> ResolvedConfidence(vs[i])])

\* C9 as stated: valueConfidence equals the maximum of the resolved
\* confidences of the value blocks of the key's first VALUE relationship, and
\* the value text is built from those blocks only.
C9_AsStated ==
    \A i \in 1..Len(Pairs) :
        LET vs == FirstValueBlocks(KeyBlocks(blocks)[i])
        IN  vs # <<>> =>
               /\ Pairs[i].valueConfidence = MaxResolvedConfidence(vs)
               /\ Pairs[i].value = Strip(TextsWithSpace(vs))

\* C9 amended: valueConfidence equals that maximum rounded to 2 decimals (0.0
\* when the first VALUE relationship names no known block or the key has
\* none), and the value text is built from those blocks only, whatever later
\* VALUE relationships the key has.
C9_RoundedMaxOfFirst ==
    \A i \in 1..Len(Pairs) :
        LET vs == FirstValueBlocks(KeyBlocks(blocks)[i])
        IN  /\ Pairs[i].valueConfidence = Round2(MaxResolvedConfidence(vs), 1)
            /\ Pairs[i].value = Strip(TextsWithSpace(vs))

\* a key with two VALUE relationships whose second names a block of higher
\* resolved confidence than the pair reports
C9_Witness ==
    \E i \in 1..Len(Pairs) :
        LET k == KeyBlocks(blocks)[i]
        IN  /\ Len(ValueRelsOf(k)) = 2
            /\ FirstValueBlocks(k) # <<>>
            /\ Pairs[i].valueConfidence > 0
            /\ \E b \in Range(Named(ValueRelsOf(k)[2].Ids)) :
                  /\ ResolvedConfidence(b) > Pairs[i].valueConfidence
                  /\ ResolvedText(b) # <<>>

\* C10 as stated: Scenario B produces the pair key "Date", keyConfidence
\* 98.0, value "01/01/2024 " with its trailing space, valueConfidence 95.0.
C10_AsStated ==
    (blocks = ScenarioB /\ jsonOut # <<>>) =>
        /\ Len(Pairs) = 1
        /\ Pairs[1].key = Chars_Date
        /\ Pairs[1].keyConfidence = 98000
        /\ Pairs[1].value = Chars_01_01_2024 \o <<" ">>
        /\ Pairs[1].valueConfidence = 95000

\* C10 amended: Scenario B produces the pair key "Date", keyConfidence 98.0,
\* value "01/01/2024" without a trailing space, valueConfidence 95.0.
C10_ScenarioB ==
    (blocks = ScenarioB /\ jsonOut # <<>>) =>
        /\ Len(Pairs) = 1
        /\ Pairs[1].key = Chars_Date
        /\ Pairs[1].keyConfidence = 98000
        /\ Pairs[1].value = Chars_01_01_2024
        /\ Pairs[1].valueConfidence = 95000

\* the structured record of Scenario B has been built
C10_Witness ==
    /\ blocks = ScenarioB
    /\ Len(Pairs) = 1
    /\ Len(Pairs[1].value) = 10

\* the key blocks that have a VALUE relationship, in block order
KeysWithValue == SelectSeq(KeyBlocks(blocks), LAMBDA k : ValueRelsOf(k) # <<>>)

\* C11: a KEY block without a VALUE relationship is omitted: keyValuePairs has
\* one entry per key block that has a VALUE relationship and none for the
\* others, and the structured record is still built.
C11_KeyWithoutValueOmitted ==
    jsonOut # <<>> =>
        /\ ~jsonOut[1].raised
        /\ Len(Pairs) = Len(KeysWithValue)
        /\ \A i \in 1..Len(Pairs) :
              Pairs[i].key = Strip(ResolvedText(KeysWithValue[i]))

(***************************************************************************)
(* Claims about the assemblers over several tables.                        *)
(***************************************************************************)
\* C12: an exception raised while one table is reconstructed does not leave
\* parse_tables_to_csv_data or parse_blocks_to_structured_json: each call
\* returns its result, whatever cell blocks the tables have.
C12_ExceptionStaysInTable ==
    /\ csvOut # <<>> => ~csvOut[1].raised
    /\ jsonOut # <<>> => ~jsonOut[1].raised

\* the spatial reconstruction of the table t succeeds
SpatialSucceeds(t) == reconstruct_table_structure_spatially(blocks, t) # <<>>

\* the table t lists at least one CELL block
HasCells(t) == cell_blocks_in_table(blocks, t) # <<>>

\* the path a table must take: spatial when the reconstruction succeeds,
\* else structural when it has cells, else skipped
DuePath(t) ==
    IF SpatialSucceeds(t) THEN "spatial"
    ELSE IF HasCells(t) THEN "structural" ELSE "skipped"

\* all cells of a table record carry the flag
CellFlagsAre(tb, flag) ==
    \A r \in 1..Len(tb.rows) :
        \A c \in 1..Len(tb.rows[r].cells) :
            tb.rows[r].cells[c].spatiallyReconstructed = flag

TablePosition(t) ==
    CHOOSE n \in 1..Len(BlocksOfType(blocks, "TABLE")) : BlocksOfType(blocks, "TABLE")[n] = t

\* the tables that contributed body rows to the CSV rows
BodyEntries ==
    IF csvOut = <<>> \/ csvOut[1].raised THEN {}
    ELSE {e \in Range(csvOut[1].log) : e.count > 0}

\* C15: the body rows of every table except the first TABLE block come right
\* after one blank row and the label row "--- Table N (Page P) ---", N the
\* table's position among the TABLE blocks; the body of the first TABLE block
\* starts the output; also when an earlier table was skipped.
C15_SeparatorAndLabel ==
    \A e \in BodyEntries :
        IF TablePosition(e.table) = 1
        THEN e.first = 1
        ELSE /\ e.first >= 3
             /\ csvOut[1].all_csv_rows[e.first - 2] = <<>>
             /\ csvOut[1].all_csv_rows[e.first - 1] =
                   << <<"--- Table ", ToString(TablePosition(e.table)), " (Page ",
                        PageLabel(blocks[e.table]), ") ---">> >>

\* C16: for a document without TABLE blocks and with n >= 1 LINE blocks the
\* CSV rows are n + 1: the header row, then one single-cell row per LINE block
\* in block order holding that line's resolved text.
C16_LinesFallback ==
    (csvOut # <<>> /\ BlocksOfType(blocks, "TABLE") = <<>>
                   /\ BlocksOfType(blocks, "LINE") # <<>>) =>
        LET lines == BlocksOfType(blocks, "LINE")
            rows == csvOut[1].all_csv_rows
        IN  /\ ~csvOut[1].raised
            /\ Len(rows) = Len(lines) + 1
            /\ rows[1] = <<"Detected Lines (No Table Structure Found)">>
            /\ \A i \in 1..Len(lines) : rows[i + 1] = <<ResolvedText(lines[i])>>

\* Scenario D: three LINE blocks, no TABLE block, four rows returned, the
\* last three of different texts
C16_Witness ==
    /\ csvOut # <<>>
    /\ BlocksOfType(blocks, "TABLE") = <<>>
    /\ Len(BlocksOfType(blocks, "LINE")) = 3
    /\ Len(csvOut[1].all_csv_rows) = 4
    /\ csvOut[1].all_csv_rows[2] # csvOut[1].all_csv_rows[3]
    /\ csvOut[1].all_csv_rows[3] # csvOut[1].all_csv_rows[4]

\* the greatest column a cell of table t covers, 0 without cells
MaxColumn(t) ==
    LET cells == cell_blocks_in_table(blocks, t)
        S == {blocks[cells[i]].ColumnIndex[1] + ColumnSpanOr1(blocks[cells[i]]) - 1 :
                 i \in 1..Len(cells)}
              \cup {0}
    IN  CHOOSE m \in S : \A x \in S : x <= m

\* the positions in all_csv_rows of the body rows of one entry of the log
BodyRows(e) == e.first..(e.first + e.count - 1)

\* C17: the body rows one table contributes to the CSV rows are all of one
\* length: for a spatial table the column_count = number of column boundaries
\* - 1 of every grid a call returned for it, for a structural table the
\* greatest column; a grid that
\* reconstruct_table_structure_spatially returns has row_count rows, one per
\* row cluster, of row indices 1..row_count, each of column_count cells of
\* column indices 1..column_count; every other row is a separator or a label.
C17_BodyRowsOfOneLength ==
    /\ \A k \in 1..Len(spatialOut) : spatialOut[k].result # <<>> =>
          LET grid == spatialOut[k].result[1]
          IN  /\ grid.column_count = spatialOut[k].column_boundaries - 1
              /\ grid.row_count = spatialOut[k].rows
              /\ Len(grid.rows) = grid.row_count
              /\ \A r \in 1..Len(grid.rows) :
                    /\ grid.rows[r].row_index = r
                    /\ Len(grid.rows[r].cells) = grid.column_count
                    /\ \A c \in 1..grid.column_count :
                          grid.rows[r].cells[c].column_index = c
    /\ (csvOut # <<>> /\ ~csvOut[1].raised /\ csvOut[1].log # <<>>) =>
          LET rows == csvOut[1].all_csv_rows
              log == csvOut[1].log
          IN  /\ \A k \in 1..Len(log) : \A i \in BodyRows(log[k]) :
                    /\ i \in 1..Len(rows)
                    /\ log[k].path = "spatial" =>
                          /\ Len(rows[i]) = Len(rows[log[k].first])
                          /\ \A j \in 1..Len(spatialOut) :
                                (spatialOut[j].table = log[k].table
                                    /\ spatialOut[j].result # <<>>) =>
                                   Len(rows[i]) = spatialOut[j].result[1].column_count
                    /\ log[k].path = "structural" =>
                          Len(rows[i]) = MaxColumn(log[k].table)
              /\ \A i \in 1..Len(rows) :
                    \/ \E k \in 1..Len(log) : i \in BodyRows(log[k])
                    \/ rows[i] = <<>>
                    \/ /\ Len(rows[i]) = 1
                       /\ Len(rows[i][1]) = 5
                       /\ rows[i][1][1] = "--- Table "

\* a spatial table gave the CSV two body rows of three cells, one of them
\* empty, and a call of reconstruct_table_structure_spatially returned its grid
C17_Witness ==
    /\ csvOut # <<>>
    /\ \E k \in 1..Len(csvOut[1].log) :
          LET e == csvOut[1].log[k]
              rows == csvOut[1].all_csv_rows
          IN  /\ e.path = "spatial" /\ e.count = 2
              /\ Len(rows[e.first]) = 3
              /\ \E c \in 1..3 : rows[e.first + 1][c] = <<>>
              /\ \E j \in 1..Len(spatialOut) :
                    spatialOut[j].table = e.table /\ spatialOut[j].result # <<>>

\* the block list without the parent_cell annotations
Unannotated(bs) == [i \in 1..Len(bs) |-> [bs[i] EXCEPT !.parent_cell = <<>>]]

\* one step leaves the list, the index and every original field as they were,
\* and annotates nothing but WORD blocks with a CELL block that leads to them
FrameOfStep ==
    /\ Len(blocks') = Len(blocks)
    /\ Unannotated(blocks') = Unannotated(blocks)
    /\ \A i \in 1..Len(blocks) :
          /\ blocks_map_get(blocks', blocks[i].Id) = blocks_map_get(blocks, blocks[i].Id)
          /\ blocks'[i].parent_cell # blocks[i].parent_cell =>
                /\ blocks[i].BlockType = "WORD"
                /\ \E c \in 1..Len(blocks) :
                      /\ blocks'[i].parent_cell = <<c>>
                      /\ blocks[c].BlockType = "CELL"
                      /\ i \in Range(extract_words_from_cell(blocks, blocks[c]))

\* the result a step obtains is the result on the blocks never annotated
ResultOfStep ==
    /\ spatialOut' # spatialOut =>
          spatialOut'[Len(spatialOut')]
              = ReconstructCall(Unannotated(blocks), spatialOut'[Len(spatialOut')].table).out
    /\ csvOut' # csvOut => csvOut'[1] = CsvCall(Unannotated(blocks)).out
    /\ jsonOut' # jsonOut => jsonOut'[1] = JsonCall(Unannotated(blocks)).out

\* C18: any number of calls of the reconstructor and the two assemblers (and
\* of the resolver they call) leave the block list, the identifier index and
\* every original field of every block unchanged; the one change is the
\* parent_cell annotation on WORD blocks reached from a cell, and no result
\* obtained after it differs from the result without it.
C18_OnlyParentCell == [][FrameOfStep /\ ResultOfStep]_vars

\* a WORD block carries the annotation and each of the three operations has
\* returned a result since: two reconstructions, the CSV rows and the JSON
C18_Witness ==
    /\ \E i \in 1..Len(blocks) :
          blocks[i].BlockType = "WORD" /\ blocks[i].parent_cell # <<>>
    /\ Len(spatialOut) = 2 /\ spatialOut[2].result # <<>>
    /\ csvOut # <<>> /\ csvOut[1].all_csv_rows # <<>>
    /\ jsonOut # <<>> /\ ~jsonOut[1].raised

\* twice the vertical centers of the words of a row, summed
TwiceCenters(row) == 2 * SumField(row, "top") + SumField(row, "height")

\* the vertical center of word w lies within tol of the mean vertical center
\* of the words of row: |c - S/k| <= tol, in whole numbers
WithinOfMean(w, row, tol) ==
    LET k == Len(row)
        a == k * (2 * w.top + w.height) - TwiceCenters(row)
    IN  (IF a < 0 THEN -a ELSE a) * tol.d <= 2 * k * tol.n

\* C19: the rows reconstruct_table_structure_spatially forms are non-empty
\* runs of the words sorted by top edge that concatenate, in order, to the
\* whole sequence; a word continues the open row exactly when its vertical
\* center is within the row tolerance of the mean vertical center of the words
\* already in that row, and opens the next row otherwise.
C19_RowsAreRuns ==
    \A k \in 1..Len(spatialOut) : spatialOut[k].spatial_words > 0 =>
        LET words == spatialOut[k].sorted_words
            rows == spatialOut[k].clustered
            tol == row_tolerance(words)
        IN  /\ \A i \in 1..(Len(words) - 1) : words[i].top <= words[i + 1].top
            /\ Len(rows) = spatialOut[k].rows
            /\ \A r \in 1..Len(rows) : rows[r] # <<>>
            /\ Concat(rows) = words
            /\ \A r \in 1..Len(rows) : \A j \in 2..Len(rows[r]) :
                  WithinOfMean(rows[r][j], SubSeq(rows[r], 1, j - 1), tol)
            /\ \A r \in 2..Len(rows) : ~WithinOfMean(rows[r][1], rows[r - 1], tol)

\* a row of three words whose third word is within the tolerance of the mean
\* of the first two but not of the first word alone
C19_Witness ==
    \E k \in 1..Len(spatialOut) :
        LET rows == spatialOut[k].clustered
            tol == row_tolerance(spatialOut[k].sorted_words)
        IN  /\ Len(rows) = 1 /\ Len(rows[1]) = 3
            /\ WithinOfMean(rows[1][3], SubSeq(rows[1], 1, 2), tol)
            /\ ~WithinOfMean(rows[1][3], <<rows[1][1]>>, tol)

\* the words of a cell text: its parts between spaces
RECURSIVE SplitFrom(_, _, _)
SplitFrom(text, cur, acc) ==
    IF text = <<>> THEN (IF cur = <<>> THEN acc ELSE Append(acc, cur))
    ELSE IF Head(text) = " "
    THEN SplitFrom(Tail(text), <<>>, IF cur = <<>> THEN acc ELSE Append(acc, cur))
    ELSE SplitFrom(Tail(text), Append(cur, Head(text)), acc)

Tokens(text) == SplitFrom(text, <<>>, <<>>)

\* the words joined into the cells of one row of a grid, cell after cell
RowTokens(grid_row) ==
    Concat([c \in 1..Len(grid_row.cells) |-> Tokens(grid_row.cells[c].text)])

\* how often x occurs in the sequence s
Count(s, x) == Cardinality({i \in 1..Len(s) : s[i] = x})

\* the texts of a sequence of spatial words
TextsOf(words) == [i \in 1..Len(words) |-> words[i].text]

\* C20: when reconstruct_table_structure_spatially returns a grid, the words
\* joined into the cells of its r-th row are the words of the r-th row
\* cluster, each as often as it occurs there, every cell has a column index
\* within 1..column_count, and the words joined into all cells are as many as
\* the words with a valid bounding box.
C20_WordConservation ==
    \A k \in 1..Len(spatialOut) : spatialOut[k].result # <<>> =>
        LET grid == spatialOut[k].result[1]
            words == spatialOut[k].sorted_words
            rows == spatialOut[k].clustered
        IN  /\ Len(grid.rows) = Len(rows)
            /\ \A r \in 1..Len(rows) :
                  /\ \A c \in 1..Len(grid.rows[r].cells) :
                        grid.rows[r].cells[c].column_index \in 1..grid.column_count
                  /\ Len(RowTokens(grid.rows[r])) = Len(rows[r])
                  /\ \A i \in 1..Len(rows[r]) :
                        Count(RowTokens(grid.rows[r]), rows[r][i].text)
                            = Count(TextsOf(rows[r]), rows[r][i].text)
            /\ Len(Concat([r \in 1..Len(grid.rows) |-> RowTokens(grid.rows[r])]))
                  = Len(words)
            /\ grid.word_count = Len(words)

\* a grid was returned for three words of which one has its horizontal
\* center left of the first column boundary
C20_Witness ==
    \E k \in 1..Len(spatialOut) :
        /\ spatialOut[k].result # <<>>
        /\ spatialOut[k].spatial_words = 3
        /\ LET column_boundaries ==
                   Reconstruction(blocks, spatialOut[k].table).column_boundaries
           IN  \E i \in 1..3 :
                  FLt(spatialOut[k].sorted_words[i].center_x, column_boundaries[1])

(***************************************************************************)
(* Claims about lambda_handler.                                            *)
(***************************************************************************)
\* C14: at the end of an invocation whose notification parsed, either both
\* artifacts are stored, both keys are in the payload and the status is
\* 'processed', or the status is 'failed', nothing is stored and the payload
\* names no artifact key.
C14_AllOrNothing ==
    (handler.pc = "done" /\ ~handler.event[1].malformed) =>
        \/ /\ handler.webhook_payload.status = <<"processed">>
           /\ handler.stored = {"csv", "json"}
           /\ handler.webhook_payload.csvS3Key # <<>>
           /\ handler.webhook_payload.jsonS3Key # <<>>
        \/ /\ handler.webhook_payload.status = <<"failed">>
           /\ handler.stored = {}
           /\ handler.webhook_payload.csvS3Key = <<>>
           /\ handler.webhook_payload.jsonS3Key = <<>>

(***************************************************************************)
(* Claims about the column boundaries.                                     *)
(***************************************************************************)
\* each boundary lies more than the tolerance below the next
FarApart(column_boundaries, tol) ==
    \A k \in 1..(Len(column_boundaries) - 1) :
        /\ FLt(column_boundaries[k], column_boundaries[k + 1])
        /\ FLt(tol, FAbsDiff(column_boundaries[k + 1], column_boundaries[k]))

\* a step of the loop appends a boundary or changes the last one only; the
\* sort leaves the list as it is
StepOfFold ==
    /\ (fold.pc = "fold" /\ fold'.pc = "fold") =>
          /\ Len(fold'.column_boundaries) \in
                {Len(fold.column_boundaries), Len(fold.column_boundaries) + 1}
          /\ \A k \in 1..(Len(fold.column_boundaries) - 1) :
                fold'.column_boundaries[k] = fold.column_boundaries[k]
          /\ Len(fold'.column_boundaries) > Len(fold.column_boundaries) =>
                SubSeq(fold'.column_boundaries, 1, Len(fold.column_boundaries))
                    = fold.column_boundaries
    /\ (fold.pc = "fold" /\ fold'.pc = "sorted") =>
          fold'.column_boundaries = fold.column_boundaries

\* C21: at every step of the fold of the ascending distinct edge positions
\* the boundaries are strictly ascending and consecutive ones lie more than
\* boundary_tolerance apart; a merge changes only the boundary appended last;
\* hence the sort changes nothing and every column range has start < end.
C21_FoldKeepsBoundariesApart ==
    /\ [](fold.pc # "idle" => FarApart(fold.column_boundaries, fold.boundary_tolerance))
    /\ [][StepOfFold]_vars
    /\ [](\A k \in 1..Len(fold.column_ranges) :
             FLt(fold.column_ranges[k].start, fold.column_ranges[k].end))

\* the ranges were formed after a fold that merged two positions into the
\* boundary appended last and then appended another boundary
C21_Witness ==
    /\ fold.pc = "ranges"
    /\ Len(fold.unique_x_positions) = 4
    /\ Len(fold.column_boundaries) = 2
    /\ fold.column_boundaries[1] \notin
          {FInt(fold.unique_x_positions[k]) : k \in 1..4}

(***************************************************************************)
(* Claims about the two artifacts together.                                *)
(***************************************************************************)
\* the entries of the CSV log of the tables that gave body rows, in order
Contributing == SelectSeq(csvOut[1].log, LAMBDA e : e.count > 0)

\* C22: with the AI consolidation disabled, for the same blocks a TABLE block
\* gives body rows to the CSV rows exactly when it has a table record, both
\* from the same provenance; the table's CSV body rows are as many as the
\* record's rowCount and each is as long as the record's columnCount.
C22_ArtifactsAgree ==
    (csvOut # <<>> /\ jsonOut # <<>> /\ ~jsonOut[1].raised) =>
        /\ Len(csvOut[1].log) = Len(BlocksOfType(blocks, "TABLE"))
        /\ [n \in 1..Len(Contributing) |-> Contributing[n].table] = jsonOut[1].from
        /\ Len(TableRecords) = Len(Contributing)
        /\ \A n \in 1..Len(Contributing) :
              /\ TableRecords[n].spatiallyReconstructed = (Contributing[n].path = "spatial")
              /\ ~TableRecords[n].spatiallyReconstructed
                    = (Contributing[n].path = "structural")
              /\ TableRecords[n].rowCount = Contributing[n].count
              /\ \A i \in BodyRows(Contributing[n]) :
                    Len(csvOut[1].all_csv_rows[i]) = TableRecords[n].columnCount

\* both artifacts were built from a document with a spatial table, a
\* structural table of two columns and a skipped table
C22_Witness ==
    /\ csvOut # <<>> /\ jsonOut # <<>> /\ ~jsonOut[1].raised
    /\ Len(csvOut[1].log) = 3
    /\ Len(TableRecords) = 2
    /\ \E n \in 1..2 : TableRecords[n].spatiallyReconstructed
    /\ \E n \in 1..2 : /\ ~TableRecords[n].spatiallyReconstructed
                       /\ TableRecords[n].columnCount = 2

(***************************************************************************)
(* Claims about the notifications of lambda_handler.                       *)
(***************************************************************************)
\* the artifacts a payload names
NamedArtifacts(payload) ==
    (IF payload.csvS3Key # <<>> THEN {"csv"} ELSE {})
    \cup (IF payload.jsonS3Key # <<>> THEN {"json"} ELSE {})

\* C23: an invocation whose notification parses posts exactly one payload
\* before it returns, of status 'processed' or 'failed', a 'processed' one
\* only with every artifact it names stored; an invocation whose notification
\* does not parse returns 400 and neither fetches, stores nor posts; a job
\* status other than SUCCEEDED gives a 'failed' payload without a fetch.
C23_OneNotification ==
    /\ (handler.pc = "done" /\ ~handler.event[1].malformed) =>
          /\ Len(handler.sent) = 1
          /\ handler.sent[1].status \in {<<"processed">>, <<"failed">>}
          /\ handler.sent[1].status = <<"processed">> =>
                NamedArtifacts(handler.sent[1]) \subseteq handler.stored
    /\ (handler.pc \notin {"idle", "start"} /\ handler.event[1].malformed) =>
          /\ handler.pc = "done"
          /\ handler.statusCode = 400
          /\ ~handler.fetch_called
          /\ handler.stored = {}
          /\ handler.sent = <<>>
    /\ (handler.pc = "done" /\ ~handler.event[1].malformed
           /\ handler.event[1].Status # "SUCCEEDED") =>
          /\ Len(handler.sent) = 1
          /\ handler.sent[1].status = <<"failed">>
          /\ ~handler.fetch_called

(***************************************************************************)
(* Claims about the separator and label rows of the CSV rows.              *)
(***************************************************************************)
\* the row is a label row "--- Table N (Page P) ---"
IsLabelRow(row) ==
    /\ Len(row) = 1
    /\ Len(row[1]) = 5
    /\ row[1][1] = "--- Table "

\* C24: in the rows parse_tables_to_csv_data returns, every blank row is
\* followed by a label row and every label row by the first body row of the
\* table it names: a table that gives no body row leaves neither.
C24_NoLabelWithoutBody ==
    (csvOut # <<>> /\ ~csvOut[1].raised) =>
        LET rows == csvOut[1].all_csv_rows
        IN  \A i \in 1..Len(rows) :
                /\ rows[i] = <<>> => (i < Len(rows) /\ IsLabelRow(rows[i + 1]))
                /\ IsLabelRow(rows[i]) =>
                      \E e \in BodyEntries :
                          /\ e.first = i + 1
                          /\ rows[i][1][2] = ToString(TablePosition(e.table))

====
